---- MODULE Spec2Model ----
(***************************************************************************)
(* StandX maker bot: the decision loop (core/maker.py), the state store    *)
(* (core/state.py), the user-stream callbacks (main.py) and the venue they *)
(* talk to.                                                                *)
(*                                                                         *)
(* Units.  Time is counted in steps of 5 seconds (the heartbeat of the     *)
(* loop); every *_sec value below is in steps.  Prices are in ticks, and   *)
(* one tick is 1 bps of the price level 10000 the feeds move around.  A    *)
(* price the bot computes (a target, a tracked order price) is kept exact  *)
(* as a multiple of 1/SCALE tick.  Distances are in tenths of a bps.       *)
(* Quantities are in lots (the order size is one lot).  PnL is in          *)
(* tick*lot.                                                               *)
(*                                                                         *)
(* Revisions.  The sources are not all of one revision: main.py reads      *)
(* maker._pending_cancels and config.imbalance_* that maker.py/config.py   *)
(* do not define, and state.py returns the cancel list wrapped in a        *)
(* record ('orders', 'cex_triggered_sides') where maker.py iterates the    *)
(* list.  The model keeps each file's logic and joins them at these        *)
(* interfaces: _pending_cancels is the empty set (nothing in maker.py      *)
(* fills it), the imbalance settings are configuration, and the tick       *)
(* iterates the 'orders' list of the record.                               *)
(*                                                                         *)
(* Environment.  The venue answers a request and the user stream delivers  *)
(* its events within one step of the clock; a coroutine that can run does  *)
(* so before the clock moves.  A feed message arrives between two ticks,   *)
(* at most one per tick.  The environment acts at most MaxEnv times in a   *)
(* run, and a run has either feed messages or trading events (fills, mark  *)
(* moves, transport errors and refusals).  A price whose quotient by the   *)
(* tick size rounds short in floating point counts among these acts.  The  *)
(* bot may start with a position the venue reports (Maker.initialize).     *)
(*                                                                         *)
(* PureSpec applies three functions of the loop (the band test of          *)
(* State.get_orders_to_cancel, Maker._get_dynamic_distances and the        *)
(* planning stretch of Maker._tick) to inputs drawn from small sets, for   *)
(* the inputs the feeds of Spec do not produce within its bounds.          *)
(*                                                                         *)
(* StreamSpec runs the loop with the user stream in a market that stands   *)
(* still, from the orders Maker.initialize finds at the venue: partial     *)
(* fills, reports of open orders, messages with a field that is not a      *)
(* number, a reconnection of the stream, and the exit of the process.      *)
(*                                                                         *)
(* LoopSpec runs Maker.run with Maker.stop and with a tick that raises.    *)
(*                                                                         *)
(* CloseSpec runs the loop, the position events and the stop-loss task     *)
(* they schedule, under weak fairness of the event loop and the venue,     *)
(* from a long position whose mark moves.                                  *)
(***************************************************************************)
EXTENDS Integers, Sequences, FiniteSets, TLC

VARIABLES
    now,        \* wall clock, in steps
    st,         \* State: scalars and the two tracked orders
    cexWin,     \* State.cex_price_window
    dexWin,     \* State.dex_price_window
    volWin,     \* State.cex_volume_window
    imbWin,     \* State.imbalance_window
    mk,         \* Maker: guard, recovery and latch fields, wake event
    tk,         \* the coroutine of Maker.run / Maker._tick: position and locals
    sl,         \* the two activations of Maker._check_stop_loss: position and locals
    call,       \* the venue call each coroutine is suspended in
    venue,      \* the venue: position, mark, open orders
    uq,         \* user stream: events sent by the venue, not yet delivered
    bud,        \* what the environment has used up of its bounds
    obs         \* what the current tick has done (observation only)

vars == <<now, st, cexWin, dexWin, volWin, imbWin, mk, tk, sl, call, venue, uq, bud, obs>>

-----------------------------------------------------------------------------
(* Bounds of the model *)

MaxTime == 3
MaxEnv == 3
MaxIds == 4
MaxQueue == 2

-----------------------------------------------------------------------------
(* Program constants and configuration (config.py) *)

SCALE == 100000
NONE == -1

HEARTBEAT == 1
RECOVERY_SLEEP == 1
PRICE_WINDOW == 720
CEX_DANGER_THRESHOLD_BPS == 20
FILL_DEDUP == 0

order_size_btc == 1
max_position_btc == 1
order_distance_tight_min_bps == 100
order_distance_tight_max_bps == 100
order_distance_far_min_bps == 250
order_distance_far_max_bps == 250
cancel_distance_min_bps == 50
cancel_distance_max_bps == 50
rebalance_distance_bps == 300
max_skew_bps == 40
volatility_window_sec == 2
volatility_threshold_bps == 80
stop_loss_usd == 5
min_profit_usd == 0
taker_fee_rate == 40
min_profit_bps == 20
fill_cooldown_sec == 1
recovery_window_sec == 2
recovery_volatility_bps == 250
stop_loss_cooldown_sec == 2
recovery_check_interval_sec == 1
binance_symbol == TRUE
binance_staleness_sec == 1
dex_staleness_sec == 1
spread_threshold_bps == 200
spread_warn_bps == 120
spread_recovery_bps == 100
amplitude_window_sec == 2
amplitude_ratio_threshold == 5
amplitude_warn_ratio_threshold == 3
velocity_check_window_sec == 1
velocity_tick_threshold == 2
velocity_warn_tick_threshold == 1
volume_window_sec == 2
volume_min_samples == 1
volume_warn_ratio == 25
volume_guard_ratio == 40
risk_guard_cooldown_sec == 1
risk_recovery_stable_sec == 1
caution_other_side_enabled == TRUE
imbalance_guard_enabled == TRUE
imbalance_window_sec == 3
imbalance_guard_threshold == 400
imbalance_warn_threshold == 200

(* What the feeds and the venue can send *)
DexPrices == {10000, 10005}
CexPrices == {10000, 10004, 10030}
Volumes == {1, 5}
Depths == {<<3, 1>>, <<1, 3>>}
MarkOffsets == {-10, 0, 10}

Sides == {"buy", "sell"}
Procs == {"tick", "ws"}

-----------------------------------------------------------------------------
(* Arithmetic helpers *)

Abs(x) == IF x < 0 THEN -x ELSE x
Max2(a, b) == IF a >= b THEN a ELSE b
Min2(a, b) == IF a <= b THEN a ELSE b
Sign(x) == IF x > 0 THEN 1 ELSE IF x < 0 THEN -1 ELSE 0
FloorDiv(a, b) == a \div b
CeilDiv(a, b) == -((-a) \div b)

RECURSIVE SeqSum(_)
SeqSum(s) == IF s = <<>> THEN 0 ELSE Head(s) + SeqSum(Tail(s))

RECURSIVE SeqMax(_)
SeqMax(s) == IF Len(s) = 1 THEN s[1] ELSE Max2(Head(s), SeqMax(Tail(s)))

RECURSIVE SeqMin(_)
SeqMin(s) == IF Len(s) = 1 THEN s[1] ELSE Min2(Head(s), SeqMin(Tail(s)))

Reverse(s) == [i \in 1..Len(s) |-> s[Len(s) + 1 - i]]

-----------------------------------------------------------------------------
(* State: rolling windows (core/state.py) *)

\* the while-loop that pops the head while its timestamp is <= cutoff
RECURSIVE Prune(_, _)
Prune(w, cutoff) ==
    IF w # <<>> /\ Head(w).t <= cutoff THEN Prune(Tail(w), cutoff) ELSE w

\* an append whose cutoff lies one time step too early
AppendedLate(w, t, v, window_sec) == Prune(Append(w, [t |-> t, v |-> v]), t - window_sec - 1)

\* append (now, v), then prune with cutoff = now - window_sec
Appended(w, t, v, window_sec) == Prune(Append(w, [t |-> t, v |-> v]), t - window_sec)

\* [v for t, v in window if t > cutoff]
Since(w, cutoff) ==
    LET keep == SelectSeq(w, LAMBDA e : e.t > cutoff)
    IN  [i \in 1..Len(keep) |-> keep[i].v]

_get_window(source) ==
    IF source = "cex" THEN cexWin
    ELSE IF source = "dex" THEN dexWin
    ELSE IF cexWin # <<>> THEN cexWin
    ELSE dexWin

\* volatility as the fraction num/den of a bps tenth; inf when the last price is 0
get_volatility_bps(window_sec, source) ==
    LET prices == Since(_get_window(source), now - window_sec)
    IN  IF Len(prices) < 2 THEN [inf |-> FALSE, num |-> 0, den |-> 1]
        ELSE IF prices[Len(prices)] = 0 THEN [inf |-> TRUE, num |-> 0, den |-> 1]
        ELSE [inf |-> FALSE,
              num |-> (SeqMax(prices) - SeqMin(prices)) * SCALE,
              den |-> prices[Len(prices)]]

\* vol > limit (limit in tenths of a bps)
VolAbove(vol, limit) == vol.inf \/ vol.num > limit * vol.den

\* amplitude as the fraction num/den of a bps tenth
get_cex_amplitude(window_sec) ==
    LET prices == Since(cexWin, now - window_sec)
    IN  IF prices = <<>> THEN [num |-> 0, den |-> 1]
        ELSE IF SeqMin(prices) = 0 THEN [num |-> 0, den |-> 1]
        ELSE [num |-> (SeqMax(prices) - SeqMin(prices)) * 2 * SCALE,
              den |-> SeqMax(prices) + SeqMin(prices)]

\* the walk over recent ticks, newest first
RECURSIVE DirWalk(_, _, _, _, _)
DirWalk(recent, i, direction, count, threshold_ticks) ==
    IF i > Len(recent) - 1 THEN 0
    ELSE LET diff == recent[i] - recent[i + 1]
             curr_dir == IF diff > 0 THEN 1 ELSE -1
         IN  IF diff = 0 THEN DirWalk(recent, i + 1, direction, count, threshold_ticks)
             ELSE IF direction = 0
                  THEN IF 1 >= threshold_ticks THEN curr_dir
                       ELSE DirWalk(recent, i + 1, curr_dir, 1, threshold_ticks)
             ELSE IF curr_dir = direction
                  THEN IF count + 1 >= threshold_ticks THEN direction
                       ELSE DirWalk(recent, i + 1, direction, count + 1, threshold_ticks)
             ELSE 0

_get_consecutive_direction(window, window_sec, threshold_ticks) ==
    IF Len(window) < threshold_ticks + 1 THEN 0
    ELSE LET recent == Reverse(Since(window, now - window_sec))
         IN  IF Len(recent) < threshold_ticks + 1 THEN 0
             ELSE DirWalk(recent, 1, 0, 0, threshold_ticks)

get_trend_direction(window_sec, threshold_ticks, source) ==
    _get_consecutive_direction(_get_window(source), window_sec, threshold_ticks)

\* (ratio, sample_count): the ratio is num/den, 0 when there is no baseline
get_cex_volume_ratio(window_sec, min_samples) ==
    LET samples == Since(volWin, now - window_sec)
        n == Len(samples)
        baseline == SubSeq(samples, 1, n - 1)
    IN  IF volWin = <<>> THEN [num |-> 0, den |-> 1, samples |-> 0]
        ELSE IF n < min_samples + 1 THEN [num |-> 0, den |-> 1, samples |-> n]
        ELSE IF SeqSum(baseline) <= 0 THEN [num |-> 0, den |-> 1, samples |-> n - 1]
        ELSE [num |-> samples[n] * (n - 1), den |-> SeqSum(baseline), samples |-> n - 1]

\* ratio > limit (limit in tenths)
RatioAbove(r, limit) == r.num * 10 > limit * r.den

\* the imbalance of one depth snapshot, in thousandths
Imbalance(bid_depth, ask_depth) ==
    IF bid_depth + ask_depth > 0
    THEN ((bid_depth - ask_depth) * 1000) \div (bid_depth + ask_depth)
    ELSE 0

get_imbalance_signal(window_sec, threshold) ==
    LET recent == Since(imbWin, now - window_sec)
    IN  IF imbWin = <<>> THEN 0
        ELSE IF Len(recent) < 3 THEN 0
        ELSE IF SeqSum(recent) > threshold * Len(recent) THEN 1
        ELSE IF SeqSum(recent) < (-threshold) * Len(recent) THEN -1
        ELSE 0

-----------------------------------------------------------------------------
(* Records *)

NoOrder == [id |-> 0, side |-> "none", price |-> 0, qty |-> 0]
OpenOrder(cl_ord_id, side, price, qty) ==
    [id |-> cl_ord_id, side |-> side, price |-> price, qty |-> qty]

NoCall == [op |-> "none", state |-> "none", id |-> 0, ids |-> {}, side |-> "none",
           otype |-> "none", qty |-> 0, price |-> 0, ro |-> FALSE, stoploss |-> FALSE,
           pos |-> 0, entry |-> 0, upnl |-> 0, open |-> {}]

\* a request on its way to the venue
Request(op, fields) == [f \in DOMAIN NoCall |->
    IF f = "op" THEN op
    ELSE IF f = "state" THEN "sent"
    ELSE IF f \in DOMAIN fields THEN fields[f]
    ELSE NoCall[f]]

SlOff == [pc |-> "off", qty |-> 0, upnl |-> 0, todo |-> <<>>,
          open |-> {}, asked |-> {}, cancelErr |-> FALSE, closes |-> <<>>, closeErr |-> FALSE,
          active |-> FALSE, next |-> 0, at |-> 0, latch |-> FALSE, pos |-> 0]

TkIdle(since) == [pc |-> "idle", now |-> 0, since |-> since, until |-> 0,
                  allowed |-> {}, cooldown |-> FALSE,
                  base_buy |-> 0, base_sell |-> 0, cancel_bps |-> 0,
                  todo |-> <<>>, buy_px |-> 0, sell_px |-> 0,
                  exit_side |-> "none", reduce_only |-> FALSE, exit_qty |-> 0,
                  cur_pos |-> 0, pend |-> NoOrder]

\* what the cancel step of a tick worked with
NoPlan == [made |-> FALSE, buy_target |-> 0, sell_target |-> 0, allowed |-> {},
           cancel |-> {}]

ObsNew == [regime |-> "none", slChecked |-> FALSE, riskSeen |-> FALSE,
           subs |-> <<>>, cancels |-> 0, takeProfit |-> FALSE,
           resumed |-> FALSE, afterFlat |-> FALSE, plan |-> NoPlan,
           other_side |-> caution_other_side_enabled]

\* time.time() at start-up is far from the 0.0 the timestamps start at
StartTime == binance_staleness_sec + fill_cooldown_sec + 1

has_order(side) == st.ord[side] # NoOrder
get_order(side) == st.ord[side]

venueUpnl == venue.pos * venue.mark
OpenIds == {o.id : o \in venue.orders}

-----------------------------------------------------------------------------
(* Initial state: Maker.__init__, State(), Maker.initialize, and the feeds  *)
(* before the first tick (nothing yet, or one quiet sample of each price    *)
(* feed, with or without a run of one-sided depth snapshots).  initialize   *)
(* copies the venue's position: none, or a long lot that is under water.    *)

WarmDepth == {<<>>, [i \in 1..3 |-> [t |-> StartTime, v |-> Imbalance(3, 1)]]}

\* the state when Maker.run starts: the feeds may already have delivered
Init ==
    /\ now = StartTime
    /\ \E dexWarm \in BOOLEAN, cexWarm \in BOOLEAN, depth \in WarmDepth, held \in BOOLEAN :
        /\ cexWarm => dexWarm
        /\ depth # <<>> => dexWarm
        /\ held => cexWarm /\ depth = <<>>
        /\ st = [dex |-> IF dexWarm THEN 10000 ELSE NONE,
                 cex |-> IF cexWarm THEN 10000 ELSE NONE,
                 dexTs |-> IF dexWarm THEN StartTime ELSE 0,
                 cexTs |-> IF cexWarm THEN StartTime ELSE 0,
                 pos |-> IF held THEN 1 ELSE 0,
                 entry |-> IF held THEN 10000 ELSE 0, lastFill |-> 0,
                 ord |-> [s \in Sides |-> NoOrder]]
        /\ dexWin = IF dexWarm THEN <<[t |-> StartTime, v |-> 10000]>> ELSE <<>>
        /\ cexWin = IF cexWarm THEN <<[t |-> StartTime, v |-> 10000]>> ELSE <<>>
        /\ imbWin = depth
        /\ mk = [running |-> TRUE, pending_check |-> dexWarm \/ cexWarm,
                 stop_loss_active |-> FALSE, next_recovery_check |-> 0,
                 risk_guard_active |-> FALSE, cooldown_until |-> 0,
                 stable_start |-> NONE, pending_close |-> FALSE]
        /\ venue = [pos |-> IF held THEN 1 ELSE 0,
                    entry |-> IF held THEN 10000 ELSE 0,
                    mark |-> IF held THEN -10 ELSE 0, orders |-> {}]
    /\ volWin = <<>>
    /\ tk = TkIdle(StartTime)
    /\ sl = [p \in Procs |-> SlOff]
    /\ call = [p \in Procs |-> NoCall]
    /\ uq = <<>>
    /\ bud = [env |-> 0, kind |-> "none", ids |-> 0, slDone |-> SlOff, flatTicks |-> NONE]
    /\ obs = ObsNew

-----------------------------------------------------------------------------
(* Event intake: the feeds (Maker.on_price_update ..., main.py callbacks)   *)

Answered(p) == call[p].state \in {"ok", "reject", "raise"}

\* a coroutine that can run now runs before the clock moves on
Runnable ==
    \/ tk.pc = "idle" /\ mk.running /\ (mk.pending_check \/ now >= tk.since + HEARTBEAT)
    \/ tk.pc = "recovery_sleep" /\ now >= tk.until
    \/ tk.pc \in {"woken", "error_sleep"}
    \/ \E p \in Procs : Answered(p)

\* the venue answers and the user stream delivers within one step of the clock
Quiet == uq = <<>> /\ \A p \in Procs : call[p] = NoCall

AdvanceTime ==
    /\ now < StartTime + MaxTime
    /\ ~Runnable /\ Quiet
    /\ now' = now + 1
    /\ UNCHANGED <<st, cexWin, dexWin, volWin, imbWin, mk, tk, sl, call, venue, uq, bud, obs>>

\* the environment acts at most MaxEnv times in a run, and a run has either
\* feed messages or trading events (fills, mark moves, venue errors)
EnvEvent(kind) ==
    /\ bud.env < MaxEnv /\ bud.kind \in {"none", kind}
    /\ bud' = [bud EXCEPT !.env = @ + 1, !.kind = kind]

\* a feed message is handled between two ticks, one message per tick
FeedBudget == EnvEvent("feed") /\ tk.pc = "idle" /\ Quiet /\ ~mk.pending_check

on_price_update ==
    /\ FeedBudget
    /\ \E price \in DexPrices :
        /\ st' = [st EXCEPT !.dex = price, !.dexTs = now]
        /\ dexWin' = Appended(dexWin, now, price, PRICE_WINDOW)
    /\ mk' = [mk EXCEPT !.pending_check = TRUE]
    /\ UNCHANGED <<now, cexWin, volWin, imbWin, tk, sl, call, venue, uq, obs>>

on_cex_price_update ==
    /\ FeedBudget
    /\ \E price \in CexPrices :
        /\ st' = [st EXCEPT !.cex = price, !.cexTs = now]
        /\ cexWin' = Appended(cexWin, now, price, PRICE_WINDOW)
    /\ mk' = [mk EXCEPT !.pending_check = TRUE]
    /\ UNCHANGED <<now, dexWin, volWin, imbWin, tk, sl, call, venue, uq, obs>>

on_cex_volume_update ==
    /\ FeedBudget
    /\ \E notional \in Volumes :
        volWin' = Appended(volWin, now, notional, volume_window_sec)
    /\ mk' = [mk EXCEPT !.pending_check = TRUE]
    /\ UNCHANGED <<now, st, cexWin, dexWin, imbWin, tk, sl, call, venue, uq, obs>>

\* main.py on_binance_depth: State.update_imbalance, and no wake
on_binance_depth ==
    /\ FeedBudget
    /\ \E d \in Depths :
        imbWin' = Appended(imbWin, now, Imbalance(d[1], d[2]), imbalance_window_sec)
    /\ UNCHANGED <<now, st, cexWin, dexWin, volWin, mk, tk, sl, call, venue, uq, obs>>

-----------------------------------------------------------------------------
(* The venue and the user stream *)

\* a message of the user stream.  leaves is the remaining quantity an order
\* message reports (NONE: no such field); bad names a field of the message
\* that holds something float() cannot convert ("none": well formed)
OrderEvent(id, side, status) ==
    [kind |-> "order", id |-> id, side |-> side, status |-> status,
     qty |-> 0, entry |-> 0, mark |-> 0, leaves |-> NONE, bad |-> "none"]
PositionEvent(qty, entry, mark) ==
    [kind |-> "position", id |-> 0, side |-> "none", status |-> "none",
     qty |-> qty, entry |-> entry, mark |-> mark, leaves |-> NONE, bad |-> "none"]

Reduces(side, pos) == (side = "sell" /\ pos > 0) \/ (side = "buy" /\ pos < 0)

\* the quantity of an order that trades against the position pos
FillQty(side, qty, ro, pos) ==
    IF ro THEN (IF Reduces(side, pos) THEN Min2(qty, Abs(pos)) ELSE 0) ELSE qty

\* the venue's books after q lots trade on side at price px
Traded(v, side, q, px) ==
    LET p2 == IF side = "buy" THEN v.pos + q ELSE v.pos - q
        opened == p2 # 0 /\ (v.pos = 0 \/ Sign(p2) # Sign(v.pos))
    IN  [v EXCEPT !.pos = p2,
                  !.entry = IF p2 = 0 THEN 0 ELSE IF opened THEN px ELSE @,
                  !.mark = IF p2 = 0 \/ opened THEN 0 ELSE @]

PositionEventOf(v) == PositionEvent(v.pos, v.entry, v.entry + v.mark)

\* the mark price moves; the venue pushes the position with its new mark
MarkMove ==
    /\ venue.pos # 0
    /\ EnvEvent("trade")
    /\ Len(uq) < MaxQueue
    /\ \E m \in MarkOffsets \ {venue.mark} :
        /\ venue' = [venue EXCEPT !.mark = m]
        /\ uq' = Append(uq, PositionEventOf(venue'))
    /\ UNCHANGED <<now, st, cexWin, dexWin, volWin, imbWin, mk, tk, sl, call, obs>>

\* a resting limit order trades in full
VenueFill ==
    /\ EnvEvent("trade")
    /\ Len(uq) + 2 <= MaxQueue
    /\ \E o \in venue.orders :
        LET q == FillQty(o.side, o.qty, o.ro, venue.pos)
            v2 == Traded([venue EXCEPT !.orders = @ \ {o}], o.side, q, o.price)
        IN  /\ q > 0
            /\ venue' = v2
            /\ uq' = uq \o <<OrderEvent(o.id, o.side, "filled"), PositionEventOf(v2)>>
    /\ UNCHANGED <<now, st, cexWin, dexWin, volWin, imbWin, mk, tk, sl, call, obs>>

RECURSIVE CancelEvents(_)
CancelEvents(os) ==
    IF os = {} THEN <<>>
    ELSE LET o == CHOOSE x \in os : \A y \in os : x.id <= y.id
         IN  <<OrderEvent(o.id, o.side, "cancelled")>> \o CancelEvents(os \ {o})

\* the venue handles the request of coroutine p and answers
VenueServe(p) ==
    LET c == call[p]
        hit == {o \in venue.orders : o.id = c.id \/ o.id \in c.ids}
        q == FillQty(c.side, c.qty, c.ro, venue.pos)
        v2 == Traded(venue, c.side, q, venue.entry + venue.mark)
    IN  /\ c.state = "sent"
        /\ CASE c.op = "query_positions" ->
                  /\ call' = [call EXCEPT ![p] = [c EXCEPT !.state = "ok",
                                 !.pos = venue.pos, !.entry = venue.entry, !.upnl = venueUpnl]]
                  /\ UNCHANGED <<venue, uq, bud>>
             [] c.op = "query_open_orders" ->
                  /\ call' = [call EXCEPT ![p] = [c EXCEPT !.state = "ok", !.open = OpenIds]]
                  /\ UNCHANGED <<venue, uq, bud>>
             [] c.op \in {"cancel_order", "cancel_orders"} /\ hit # {} ->
                  /\ Len(uq) + Cardinality(hit) <= MaxQueue
                  /\ venue' = [venue EXCEPT !.orders = @ \ hit]
                  /\ uq' = uq \o CancelEvents(hit)
                  /\ call' = [call EXCEPT ![p] = [c EXCEPT !.state = "ok"]]
                  /\ UNCHANGED bud
             [] c.op \in {"cancel_order", "cancel_orders"} /\ hit = {} ->
                  \* nothing open under that id: the venue answers, or refuses (HTTP 4xx)
                  /\ \E r \in {"ok", "raise"} :
                        call' = [call EXCEPT ![p] = [c EXCEPT !.state = r]]
                  /\ UNCHANGED <<venue, uq, bud>>
             [] c.op = "new_order" /\ c.otype = "limit" ->
                  /\ venue' = [venue EXCEPT !.orders = @ \cup
                        {[id |-> c.id, side |-> c.side, price |-> c.price,
                          qty |-> c.qty, ro |-> c.ro]}]
                  /\ call' = [call EXCEPT ![p] = [c EXCEPT !.state = "ok"]]
                  /\ UNCHANGED <<uq, bud>>
             [] c.op = "new_order" /\ c.otype = "market" /\ q > 0 ->
                  /\ Len(uq) + 2 <= MaxQueue
                  /\ venue' = v2
                  /\ uq' = uq \o <<OrderEvent(c.id, c.side, "filled"), PositionEventOf(v2)>>
                  /\ call' = [call EXCEPT ![p] = [c EXCEPT !.state = "ok"]]
                  /\ UNCHANGED bud
             [] c.op = "new_order" /\ c.otype = "market" /\ q = 0 ->
                  \* a reduce-only order with nothing to reduce is refused (code # 0)
                  /\ call' = [call EXCEPT ![p] = [c EXCEPT !.state = "reject"]]
                  /\ UNCHANGED <<venue, uq, bud>>
        /\ UNCHANGED <<now, st, cexWin, dexWin, volWin, imbWin, mk, tk, sl, obs>>

\* a transport error: the request is lost, or the venue's answer is
VenueFault(p) ==
    /\ EnvEvent("trade")
    /\ call[p].state \in {"sent", "ok"}
    /\ call' = [call EXCEPT ![p].state = "raise"]
    /\ UNCHANGED <<now, st, cexWin, dexWin, volWin, imbWin, mk, tk, sl, venue, uq, obs>>

\* the venue refuses a limit order (code # 0)
VenueReject(p) ==
    /\ EnvEvent("trade")
    /\ call[p].state = "sent" /\ call[p].op = "new_order" /\ call[p].otype = "limit"
    /\ call' = [call EXCEPT ![p].state = "reject"]
    /\ UNCHANGED <<now, st, cexWin, dexWin, volWin, imbWin, mk, tk, sl, venue, uq, obs>>

-----------------------------------------------------------------------------
(* User-stream callbacks (main.py) *)

\* Maker._pending_cancels: read by on_order, filled by nothing in maker.py
_pending_cancels == {}

record_fill(s) == [s EXCEPT !.lastFill = now]
set_order(s, side, order) == [s EXCEPT !.ord[side] = order]
update_position(s, qty, entry_price) == [s EXCEPT !.pos = qty, !.entry = entry_price]
clear_all_orders(s) == [s EXCEPT !.ord = [x \in Sides |-> NoOrder]]
update_order_qty(s, side, qty) ==
    IF s.ord[side] # NoOrder THEN [s EXCEPT !.ord[side].qty = qty] ELSE s

\* a callback that takes every event of a side for the side's tracked order
on_order_by_side ==
    /\ uq # <<>> /\ Head(uq).kind = "order"
    /\ LET e == Head(uq)
           fill == e.status \in {"filled", "partially_filled"}
           s1 == IF fill THEN record_fill(st) ELSE st
           current_order == st.ord[e.side]
           mine == current_order # NoOrder
           raised == fill /\ e.bad \in {"pnl", "fee"}
           remaining_qty == IF e.bad = "leaves_qty" THEN NONE ELSE e.leaves
       IN  IF e.status \in {"filled", "partially_filled", "cancelled", "rejected"}
              /\ e.side \in Sides /\ ~raised
           THEN /\ st' = IF mine /\ e.status \in {"filled", "cancelled", "rejected"}
                         THEN set_order(s1, e.side, NoOrder)
                         ELSE IF mine /\ remaining_qty # NONE
                         THEN update_order_qty(s1, e.side, remaining_qty)
                         ELSE s1
                /\ mk' = IF mine THEN [mk EXCEPT !.pending_check = TRUE] ELSE mk
           ELSE IF e.status \in {"filled", "partially_filled", "cancelled", "rejected"}
           THEN st' = s1 /\ UNCHANGED mk
           ELSE UNCHANGED <<st, mk>>
    /\ uq' = Tail(uq)
    /\ UNCHANGED <<now, cexWin, dexWin, volWin, imbWin, tk, sl, call, venue, bud, obs>>

\* main.py on_order.  A status outside the four of the outer test (an "open"
\* report among them) changes nothing; float() of the pnl or fee of a fill
\* raises after State.record_fill and ends the callback (the exception is
\* caught and logged by UserWSClient.run); float() of the remaining quantity
\* is inside a try block of its own
on_order ==
    /\ uq # <<>> /\ Head(uq).kind = "order"
    /\ LET e == Head(uq)
           fill == e.status \in {"filled", "partially_filled"}
           s1 == IF fill THEN record_fill(st) ELSE st
           current_order == st.ord[e.side]
           mine == current_order # NoOrder /\ current_order.id = e.id
           raised == fill /\ e.bad \in {"pnl", "fee"}
           remaining_qty == IF e.bad = "leaves_qty" THEN NONE ELSE e.leaves
       IN  IF e.status \in {"filled", "partially_filled", "cancelled", "rejected"}
              /\ e.side \in Sides /\ ~raised
           THEN /\ st' = IF mine /\ e.status \in {"filled", "cancelled", "rejected"}
                         THEN set_order(s1, e.side, NoOrder)
                         ELSE IF mine /\ remaining_qty # NONE
                         THEN update_order_qty(s1, e.side, remaining_qty)
                         ELSE s1
                /\ mk' = IF mine THEN [mk EXCEPT !.pending_check = TRUE] ELSE mk
           ELSE IF e.status \in {"filled", "partially_filled", "cancelled", "rejected"}
           THEN st' = s1 /\ UNCHANGED mk
           ELSE UNCHANGED <<st, mk>>
    /\ uq' = Tail(uq)
    /\ UNCHANGED <<now, cexWin, dexWin, volWin, imbWin, tk, sl, call, venue, bud, obs>>

\* Maker.check_stop_loss_from_ws: TRUE when the task is to be scheduled
check_stop_loss_from_ws(qty, entry_price, mark_price) ==
    /\ stop_loss_usd > 0
    /\ ~(qty = 0 \/ entry_price <= 0 \/ mark_price <= 0)
    /\ ~(mk.stop_loss_active \/ mk.pending_close)
    /\ (IF qty > 0 THEN (mark_price - entry_price) * qty
        ELSE (entry_price - mark_price) * Abs(qty)) < -stop_loss_usd

\* main.py on_position.  The float() conversions of qty, entry_price and
\* mark_price come before every change of the state, so a message they fail
\* on changes nothing
on_position ==
    /\ uq # <<>> /\ Head(uq).kind = "position"
    /\ LET e == Head(uq)
           mark_price == IF e.mark # NONE THEN e.mark
                         ELSE IF st.dex = NONE THEN 0 ELSE st.dex
           should_stop == mark_price > 0 /\ e.entry > 0 /\ e.qty # 0
                          /\ check_stop_loss_from_ws(e.qty, e.entry, mark_price)
           hidden_fill == Abs(e.qty - st.pos) > 0 /\ now - st.lastFill > FILL_DEDUP
           s1 == IF hidden_fill THEN record_fill(st) ELSE st
       IN  IF e.bad \in {"qty", "entry_price", "mark_price"}
           THEN UNCHANGED <<st, mk, sl, call, bud>>
           ELSE
           /\ st' = update_position(s1, e.qty, e.entry)
           /\ IF should_stop
              THEN \* asyncio.create_task(maker._check_stop_loss())
                   /\ sl["ws"].pc = "off"
                   /\ mk' = [mk EXCEPT !.pending_close = TRUE]
                   /\ sl' = [sl EXCEPT !["ws"].pc = "query"]
                   /\ call' = [call EXCEPT !["ws"] = Request("query_positions", <<>>)]
              ELSE UNCHANGED <<mk, sl, call>>
           /\ bud' = [bud EXCEPT !.flatTicks = IF e.qty = 0 THEN 0 ELSE NONE]
    /\ uq' = Tail(uq)
    /\ UNCHANGED <<now, cexWin, dexWin, volWin, imbWin, tk, venue, obs>>

-----------------------------------------------------------------------------
(* Maker: pure helpers (core/maker.py) *)

\* ratio is the fraction num/den; exact when min_val = max_val, floored otherwise
_lerp(min_val, max_val, ratio) ==
    (min_val * ratio.den + (max_val - min_val) * ratio.num) \div ratio.den

\* (vol_bps, ratio); ratio clamped to [0, 1]
_get_volatility_ratio ==
    LET vol_bps == get_volatility_bps(volatility_window_sec, "auto")
    IN  [vol |-> vol_bps,
         ratio |-> IF volatility_threshold_bps <= 0 THEN [num |-> 0, den |-> 1]
                   ELSE IF vol_bps.inf \/ vol_bps.num >= volatility_threshold_bps * vol_bps.den
                        THEN [num |-> 1, den |-> 1]
                   ELSE [num |-> vol_bps.num, den |-> volatility_threshold_bps * vol_bps.den]]

\* the six distance settings of the configuration in use
Config ==
    [tight_min |-> order_distance_tight_min_bps, tight_max |-> order_distance_tight_max_bps,
     far_min |-> order_distance_far_min_bps, far_max |-> order_distance_far_max_bps,
     cancel_min |-> cancel_distance_min_bps, cancel_max |-> cancel_distance_max_bps]

\* _get_dynamic_distances for the distance settings c (0.1 bps = 1)
DynamicDistances(c, vol_ratio) ==
    LET tight_bps == _lerp(c.tight_min, c.tight_max, vol_ratio)
        far_bps == _lerp(c.far_min, c.far_max, vol_ratio)
        cancel_bps == _lerp(c.cancel_min, c.cancel_max, vol_ratio)
    IN  [tight |-> tight_bps, far |-> far_bps,
         cancel |-> Min2(cancel_bps, Max2(1, tight_bps - 1))]

_get_dynamic_distances(vol_ratio) == DynamicDistances(Config, vol_ratio)

\* ratio * max_skew_bps with ratio = position / max_position clamped to [-1, 1]
_get_skew_bps(s) ==
    IF max_skew_bps <= 0 \/ max_position_btc <= 0 THEN 0
    ELSE (Max2(-max_position_btc, Min2(max_position_btc, s.pos)) * max_skew_bps)
            \div max_position_btc

\* spread_bps > limit; FALSE when the spread is None
SpreadAbove(s, limit) ==
    /\ binance_symbol /\ s.cex # NONE /\ s.cex # 0 /\ s.dex # NONE /\ s.dex # 0
    /\ s.dex > 0
    /\ Abs(s.cex - s.dex) * SCALE > limit * s.dex

\* amp_bps > tight_bps * ratio_threshold
AmpAbove(tight_bps, ratio_threshold) ==
    LET amp == IF binance_symbol THEN get_cex_amplitude(amplitude_window_sec)
               ELSE [num |-> 0, den |-> 1]
    IN  amp.num * 10 > tight_bps * ratio_threshold * amp.den

\* volume_ratio > limit and volume_samples >= volume_min_samples
VolumeAbove(limit) ==
    LET v == IF binance_symbol THEN get_cex_volume_ratio(volume_window_sec, volume_min_samples)
             ELSE [num |-> 0, den |-> 1, samples |-> 0]
    IN  RatioAbove(v, limit) /\ v.samples >= volume_min_samples

trend_source == IF binance_symbol THEN "cex" ELSE "dex"
guard_trend_dir ==
    get_trend_direction(velocity_check_window_sec, velocity_tick_threshold, trend_source)
warn_trend_dir ==
    get_trend_direction(velocity_check_window_sec, velocity_warn_tick_threshold, trend_source)
ImbalanceDir(threshold) ==
    IF binance_symbol /\ imbalance_guard_enabled
    THEN get_imbalance_signal(imbalance_window_sec, threshold) ELSE 0

\* the stability test of an active risk guard (maker.py 300-311)
GuardStable(s, tight_bps, vol_bps) ==
    /\ ~SpreadAbove(s, spread_recovery_bps)
    /\ ~VolAbove(vol_bps, recovery_volatility_bps)
    /\ warn_trend_dir = 0
    /\ ~AmpAbove(tight_bps, amplitude_warn_ratio_threshold)
    /\ ~VolumeAbove(volume_warn_ratio)

\* the guard triggers without the volume spike
GuardTriggerNoVolume(s, tight_bps) ==
    \/ SpreadAbove(s, spread_threshold_bps)
    \/ (binance_symbol /\ AmpAbove(tight_bps, amplitude_ratio_threshold))
    \/ guard_trend_dir # 0

\* which guard trigger fires, if any (maker.py 333-361)
GuardTrigger(s, tight_bps) ==
    \/ SpreadAbove(s, spread_threshold_bps)
    \/ (binance_symbol /\ AmpAbove(tight_bps, amplitude_ratio_threshold))
    \/ guard_trend_dir # 0
    \/ VolumeAbove(volume_guard_ratio)

\* caution of the single-side quoting step (maker.py 391-414)
Caution(s, tight_bps, vol_bps) ==
    \/ (volatility_threshold_bps > 0 /\ VolAbove(vol_bps, volatility_threshold_bps))
    \/ SpreadAbove(s, spread_warn_bps)
    \/ AmpAbove(tight_bps, amplitude_warn_ratio_threshold)
    \/ warn_trend_dir # 0
    \/ VolumeAbove(volume_warn_ratio)
    \/ ImbalanceDir(imbalance_warn_threshold) # 0

\* direction that picks the near side under caution (maker.py 421-431)
CautionDirection ==
    IF ImbalanceDir(imbalance_warn_threshold) # 0 THEN ImbalanceDir(imbalance_warn_threshold)
    ELSE IF warn_trend_dir # 0 THEN warn_trend_dir
    ELSE get_trend_direction(velocity_check_window_sec, 1, trend_source)

\* allowed_sides (maker.py 444-451) under a given caution_other_side_enabled
AllowedSidesWith(other_side_enabled, s, caution) ==
    IF s.pos > 0 THEN {"sell"}
    ELSE IF s.pos < 0 THEN {"buy"}
    ELSE IF caution /\ ~other_side_enabled
         THEN {IF CautionDirection >= 0 THEN "buy" ELSE "sell"}
    ELSE Sides

AllowedSides(s, caution) == AllowedSidesWith(caution_other_side_enabled, s, caution)

\* State.get_orders_to_cancel: does the tracked order o have to go
OutOfBand(s, o, bounds) ==
    LET dist == Abs(o.price - s.dex * SCALE)
        cex_in_danger ==
            /\ s.cex # NONE /\ s.cex > 0
            /\ IF o.side = "buy"
               THEN s.cex * SCALE - o.price < CEX_DANGER_THRESHOLD_BPS * s.cex
               ELSE o.price - s.cex * SCALE < CEX_DANGER_THRESHOLD_BPS * s.cex
    IN  \/ dist < bounds[1] * s.dex
        \/ cex_in_danger
        \/ dist > bounds[2] * s.dex

get_orders_to_cancel(s, buy_bounds, sell_bounds) ==
    IF s.dex = NONE THEN <<>>
    ELSE (IF s.ord["buy"] # NoOrder /\ OutOfBand(s, s.ord["buy"], buy_bounds)
          THEN <<s.ord["buy"]>> ELSE <<>>)
         \o (IF s.ord["sell"] # NoOrder /\ OutOfBand(s, s.ord["sell"], sell_bounds)
             THEN <<s.ord["sell"]>> ELSE <<>>)

\* (min_dist, max_dist) of one side (maker.py 507-516)
Bounds(base_bps, target_bps, cancel_bps) ==
    LET side_cancel_bps == Min2(cancel_bps, Max2(1, base_bps - 1))
        tolerance_lower == Max2(1, base_bps - side_cancel_bps)
        tolerance_upper == Max2(10, rebalance_distance_bps - base_bps)
    IN  <<Max2(0, target_bps - tolerance_lower), target_bps + tolerance_upper>>

\* maker.py 526-534: band violations, then tracked orders on a side not allowed
OrdersToCancel(s, allowed_sides, buy_bounds, sell_bounds) ==
    LET banded == get_orders_to_cancel(s, buy_bounds, sell_bounds)
        extra(side) == IF side \notin allowed_sides /\ s.ord[side] # NoOrder
                          /\ \A i \in 1..Len(banded) : banded[i].id # s.ord[side].id
                       THEN <<s.ord[side]>> ELSE <<>>
    IN  banded \o extra("buy") \o extra("sell")

\* the two target prices of _place_missing_orders (maker.py 586-630), over SCALE
required_margin == taker_fee_rate + min_profit_bps
BuyTargetPrice(s, buy_target_bps) ==
    LET target == s.dex * (SCALE - buy_target_bps)
        exit_price == s.entry * (SCALE - required_margin)
    IN  IF s.entry > 0 /\ s.pos < 0 /\ target > exit_price THEN Min2(target, exit_price)
        ELSE target
SellTargetPrice(s, sell_target_bps) ==
    LET target == s.dex * (SCALE + sell_target_bps)
        exit_price == s.entry * (SCALE + required_margin)
    IN  IF s.entry > 0 /\ s.pos > 0 /\ target < exit_price THEN Max2(target, exit_price)
        ELSE target

\* price / tick_size is a quotient of binary floating-point numbers.  Off the
\* tick grid it lies on the right side of the next whole number; on the grid
\* it can come out a rounding error below the whole number (buy) or above it
\* (sell), and the floor or ceil is then one tick further out: last_price
\* 59910 and 10 bps give 59850.08, where 59910 * 0.999 = 59850.09.
FloatSlack(price) == IF price % SCALE = 0 THEN {0, 1} ELSE {0}

\* _place_order: floor for buy, ceil for sell, in ticks
AlignedPrice(side, price, slack) ==
    IF side = "buy" THEN FloorDiv(price, SCALE) - slack ELSE CeilDiv(price, SCALE) + slack

-----------------------------------------------------------------------------
(* Maker._tick: the synchronous stretches between two awaits.  Each takes   *)
(* the values w = (st, mk, obs, bud) the stretch has reached so far and     *)
(* ends either in a return of the tick or in the next await.               *)

W == [st |-> st, mk |-> mk, obs |-> obs, bud |-> bud]

\* a loop that clears the wake signal when a tick has returned
TickReturnClearing(w) ==
    /\ st' = w.st /\ mk' = [w.mk EXCEPT !.pending_check = FALSE] /\ obs' = w.obs
    /\ bud' = IF w.obs.afterFlat /\ w.bud.flatTicks # NONE
              THEN [w.bud EXCEPT !.flatTicks = Min2(@ + 1, 2)] ELSE w.bud
    /\ tk' = TkIdle(now)
    /\ call' = [call EXCEPT !["tick"] = NoCall]

\* the tick returns; Maker.run waits for the next wake-up
TickReturn(w) ==
    /\ st' = w.st /\ mk' = w.mk /\ obs' = w.obs
    /\ bud' = IF w.obs.afterFlat /\ w.bud.flatTicks # NONE
              THEN [w.bud EXCEPT !.flatTicks = Min2(@ + 1, 2)] ELSE w.bud
    /\ tk' = TkIdle(now)
    /\ call' = [call EXCEPT !["tick"] = NoCall]

\* the tick suspends in a venue call
TickAwait(w, t, c) ==
    /\ st' = w.st /\ mk' = w.mk /\ obs' = w.obs /\ bud' = w.bud
    /\ tk' = t
    /\ call' = [call EXCEPT !["tick"] = c]

\* the tick raises: Maker.run logs the exception and sleeps one second
\* (maker.py 165-167)
TickRaise(w) ==
    /\ st' = w.st /\ mk' = w.mk /\ obs' = w.obs /\ bud' = w.bud
    /\ tk' = [TkIdle(now) EXCEPT !.pc = "error_sleep"]
    /\ call' = [call EXCEPT !["tick"] = NoCall]

\* what a submission looked like when it was sent
Submission(w, c) ==
    [otype |-> c.otype, side |-> c.side, ro |-> c.ro, qty |-> c.qty, price |-> c.price,
     stoploss |-> c.stoploss, pos |-> w.st.pos, entry |-> w.st.entry]

Submitted(w, c) == [w EXCEPT !.obs.subs = Append(@, Submission(w, c))]

\* _place_order up to its await.  Which prices make the quotient fall short is
\* decided by the digits the feed delivered, so a short quotient counts as an
\* act of the environment.
PlaceOrder(w, t, side, price, qty, reduce_only) ==
    LET cl_ord_id == w.bud.ids + 1
        order_qty == IF qty = NONE THEN order_size_btc ELSE qty
        c(slack) == Request("new_order",
                            [id |-> cl_ord_id, side |-> side, otype |-> "limit",
                             qty |-> order_qty, price |-> AlignedPrice(side, price, slack),
                             ro |-> reduce_only])
    IN  /\ w.bud.ids < MaxIds
        /\ \E slack \in FloatSlack(price) :
            /\ slack > 0 => w.bud.env < MaxEnv
            /\ TickAwait(Submitted([w EXCEPT !.bud.ids = cl_ord_id,
                                             !.bud.env = @ + slack], c(slack)),
                         [t EXCEPT !.pc = IF side = "buy" THEN "place_buy" ELSE "place_sell",
                                   !.pend = OpenOrder(cl_ord_id, side, price, order_qty)],
                         c(slack))

\* _place_missing_orders from the test of side `from` on (maker.py 632-642)
PlaceFrom(w, t, from) ==
    LET wants(side) == side \in t.allowed /\ w.st.ord[side] = NoOrder
        qty(side) == IF t.exit_side = side THEN t.exit_qty ELSE NONE
    IN  IF from = "buy" /\ wants("buy")
        THEN PlaceOrder(w, t, "buy", t.buy_px, qty("buy"),
                        t.reduce_only /\ t.exit_side = "buy")
        ELSE IF wants("sell")
        THEN PlaceOrder(w, t, "sell", t.sell_px, qty("sell"),
                        t.reduce_only /\ t.exit_side = "sell")
        ELSE TickReturn(w)

\* _place_missing_orders up to its first await (maker.py 581-631)
_place_missing_orders(w, t, buy_target_bps, sell_target_bps) ==
    LET s == w.st
    IN  IF s.dex = NONE THEN TickReturn(w)
        ELSE PlaceFrom(w,
                 [t EXCEPT !.buy_px = BuyTargetPrice(s, buy_target_bps),
                           !.sell_px = SellTargetPrice(s, sell_target_bps),
                           !.exit_side = IF s.pos > 0 THEN "sell"
                                         ELSE IF s.pos < 0 THEN "buy" ELSE "none",
                           !.reduce_only = s.pos # 0,
                           !.exit_qty = IF s.pos # 0 THEN Abs(s.pos) ELSE NONE],
                 "buy")

\* a cancel loop that goes on to the placement step when it is through
CancelThenPlace(w, t, todo) ==
    IF todo = <<>> THEN _place_missing_orders(w, t, t.base_buy, t.base_sell)
    ELSE TickAwait([w EXCEPT !.obs.cancels = @ + 1],
                   [t EXCEPT !.pc = "cancel", !.todo = todo],
                   Request("cancel_order", [id |-> Head(todo).id]))

\* the cancel loop of step 3 from its next order on (maker.py 537-552)
CancelFrom(w, t, todo) ==
    IF todo = <<>> THEN TickReturn(w)
    ELSE TickAwait([w EXCEPT !.obs.cancels = @ + 1],
                   [t EXCEPT !.pc = "cancel", !.todo = todo],
                   Request("cancel_order", [id |-> Head(todo).id]))

\* maker.py 483-560: cooldown return, skew, bounds, cancel or place
TickPlan(w, t) ==
    LET s == w.st
        skew_bps == _get_skew_bps(s)
        buy_target == Max2(0, t.base_buy + skew_bps)
        sell_target == Max2(0, t.base_sell - skew_bps)
        orders_to_cancel ==
            OrdersToCancel(s, t.allowed, Bounds(t.base_buy, buy_target, t.cancel_bps),
                           Bounds(t.base_sell, sell_target, t.cancel_bps))
        w2 == [w EXCEPT !.obs.plan =
                  [made |-> TRUE, buy_target |-> buy_target, sell_target |-> sell_target,
                   allowed |-> t.allowed,
                   cancel |-> {orders_to_cancel[i].id : i \in 1..Len(orders_to_cancel)}]]
    IN  IF t.cooldown /\ s.pos = 0 THEN TickReturn(w)
        \* state.py 397 divides by last_dex_price for every tracked order
        ELSE IF s.dex = 0 /\ \E side \in Sides : s.ord[side] # NoOrder THEN TickRaise(w)
        ELSE IF orders_to_cancel # <<>> THEN CancelFrom(w2, t, orders_to_cancel)
        ELSE _place_missing_orders(w2, t, buy_target, sell_target)

\* _check_and_reduce_position up to its first await, then on (maker.py 803-808)
TickReduce(w, t) ==
    IF Abs(w.st.pos) = 0 THEN TickPlan(w, t)
    ELSE TickAwait(w, [t EXCEPT !.pc = "reduce_query", !.cur_pos = Abs(w.st.pos)],
                   Request("query_positions", <<>>))

\* a guard that marks the regime and leaves the quotes to the planner
ActivateGuardAndQuote(w, t, regime) ==
    LET w2 == [w EXCEPT !.mk.risk_guard_active = TRUE,
                        !.mk.cooldown_until = now + risk_guard_cooldown_sec,
                        !.mk.stable_start = NONE,
                        !.obs.regime = regime]
    IN  _place_missing_orders(w2, [t EXCEPT !.allowed = Sides],
                              order_distance_tight_min_bps, order_distance_tight_min_bps)

\* _activate_risk_guard with _cancel_all_orders up to its await
_activate_risk_guard(w, t, regime) ==
    LET w2 == [w EXCEPT !.mk.risk_guard_active = TRUE,
                        !.mk.cooldown_until = now + risk_guard_cooldown_sec,
                        !.mk.stable_start = NONE,
                        !.obs.regime = regime]
        orders_to_cancel == {w.st.ord[x].id : x \in {y \in Sides : w.st.ord[y] # NoOrder}}
    IN  IF orders_to_cancel = {} THEN TickReturn(w2)
        ELSE TickAwait([w2 EXCEPT !.obs.cancels = @ + Cardinality(orders_to_cancel)],
                       [t EXCEPT !.pc = "guard_cancel"],
                       Request("cancel_orders", [ids |-> orders_to_cancel]))

\* maker.py 390-479: caution, allowed sides, cooldown, then the profit-take step
TickQuoteWith(other_side_enabled, w, t, d, vol_bps) ==
    LET s == w.st
        caution == Caution(s, d.tight, vol_bps)
        far_sell == caution /\ CautionDirection >= 0
        far_buy == caution /\ CautionDirection < 0
    IN  TickReduce([w EXCEPT !.obs.regime = IF caution THEN "caution" ELSE "normal",
                             !.obs.other_side = other_side_enabled],
                   [t EXCEPT !.allowed = AllowedSidesWith(other_side_enabled, s, caution),
                             !.base_buy = IF far_buy THEN d.far ELSE d.tight,
                             !.base_sell = IF far_sell THEN d.far ELSE d.tight,
                             !.cancel_bps = d.cancel,
                             !.cooldown = now - s.lastFill < fill_cooldown_sec])

TickQuote(w, t, d, vol_bps) == TickQuoteWith(caution_other_side_enabled, w, t, d, vol_bps)

\* maker.py 363-388: the imbalance guard
TickImbalance(w, t, d, vol_bps) ==
    LET imbalance_dir == ImbalanceDir(imbalance_guard_threshold)
        vulnerable_side == IF imbalance_dir > 0 THEN "sell" ELSE "buy"
    IN  IF imbalance_dir # 0 /\ w.st.ord[vulnerable_side] # NoOrder
        THEN TickAwait([w EXCEPT !.obs.regime = "imbalance", !.obs.cancels = @ + 1],
                       [t EXCEPT !.pc = "imb_cancel",
                                 !.todo = <<w.st.ord[vulnerable_side]>>],
                       Request("cancel_order", [id |-> w.st.ord[vulnerable_side].id]))
        ELSE TickQuote(w, t, d, vol_bps)

\* maker.py 289-361: the active risk guard, then the guard triggers
TickGuard(w, t, d, vol_bps) ==
    LET s == w.st
        m == w.mk
        guarded == [w EXCEPT !.obs.regime = "guard"]
        stable_start == IF m.stable_start = NONE THEN t.now ELSE m.stable_start
        resumed == [w EXCEPT !.mk.risk_guard_active = FALSE, !.mk.stable_start = NONE,
                             !.obs.resumed = TRUE]
        Triggers(w2) == IF GuardTrigger(s, d.tight) THEN _activate_risk_guard(w2, t, "guard")
                        ELSE TickImbalance(w2, t, d, vol_bps)
    IN  IF ~m.risk_guard_active THEN Triggers(w)
        ELSE IF t.now < m.cooldown_until THEN TickReturn(guarded)
        ELSE IF ~GuardStable(s, d.tight, vol_bps)
             THEN TickReturn([guarded EXCEPT !.mk.stable_start = NONE])
        ELSE IF t.now - stable_start < risk_recovery_stable_sec
             THEN TickReturn([guarded EXCEPT !.mk.stable_start = stable_start])
        ELSE Triggers(resumed)

\* maker.py 230-287: the staleness guards, then the metrics
TickRisk(w, t) ==
    LET s == w.st
        vr == _get_volatility_ratio
        d == _get_dynamic_distances(vr.ratio)
    IN  IF dex_staleness_sec > 0 /\ s.dexTs > 0 /\ t.now - s.dexTs > dex_staleness_sec
        THEN _activate_risk_guard(w, t, "stale")
        ELSE IF binance_symbol /\ t.now - s.cexTs > binance_staleness_sec
        THEN _activate_risk_guard(w, t, "stale")
        ELSE TickGuard([w EXCEPT !.obs.riskSeen = TRUE], t, d, vr.vol)

-----------------------------------------------------------------------------
(* Maker._check_stop_loss, run by the tick or by the task on_position starts *)

SlAwait(p, s2, r, c) ==
    /\ st' = s2
    /\ sl' = [sl EXCEPT ![p] = r]
    /\ call' = [call EXCEPT ![p] = c]
    /\ UNCHANGED <<mk, tk, obs, bud>>

\* the routine returns ret; in the tick, _tick goes on from line 227
SlReturn(p, s2, m2, b2, ret) ==
    /\ sl' = [sl EXCEPT ![p] = SlOff]
    /\ IF p = "ws"
       THEN /\ st' = s2 /\ mk' = m2 /\ bud' = b2
            /\ call' = [call EXCEPT ![p] = NoCall]
            /\ UNCHANGED <<tk, obs>>
       ELSE LET w == [W EXCEPT !.st = s2, !.mk = m2, !.bud = b2]
            IN  IF ret THEN TickReturn([w EXCEPT !.obs.regime = "stop"])
                ELSE TickRisk(w, [tk EXCEPT !.pc = "run"])

\* step 2 of the routine: the market close (maker.py 906-920)
SlClose(p, s2, r) ==
    LET qty == Abs(r.qty)
        c == Request("new_order", [side |-> IF r.qty > 0 THEN "sell" ELSE "buy",
                                   otype |-> "market", qty |-> qty, ro |-> TRUE,
                                   stoploss |-> TRUE])
    IN  SlAwait(p, s2, [r EXCEPT !.pc = "close", !.closes = Append(@, c)], c)

\* a routine that enters Recovery only when its flatten order went through
SlRecoveryUnlessFailed(p, s2, r) ==
    LET m2 == IF r.closeErr THEN mk
              ELSE [mk EXCEPT !.stop_loss_active = TRUE,
                              !.pending_close = FALSE,
                              !.next_recovery_check = now + stop_loss_cooldown_sec]
        done == [r EXCEPT !.pc = "done", !.active = m2.stop_loss_active,
                          !.next = m2.next_recovery_check, !.at = now,
                          !.latch = mk.pending_close /\ ~m2.pending_close, !.pos = s2.pos]
    IN  SlReturn(p, s2, m2, [bud EXCEPT !.slDone = done], ~r.closeErr)

\* step 3 of the routine: enter Recovery (maker.py 938-942)
SlRecovery(p, s2, r) ==
    LET m2 == [mk EXCEPT !.stop_loss_active = TRUE,
                         !.pending_close = FALSE,
                         !.next_recovery_check = now + stop_loss_cooldown_sec]
        done == [r EXCEPT !.pc = "done", !.active = m2.stop_loss_active,
                          !.next = m2.next_recovery_check, !.at = now,
                          !.latch = mk.pending_close /\ ~m2.pending_close, !.pos = s2.pos]
    IN  SlReturn(p, s2, m2, [bud EXCEPT !.slDone = done], TRUE)

\* the cancel loop of step 1 from its next order on (maker.py 898-901)
SlCancelFrom(p, r, todo) ==
    IF todo = <<>> THEN SlClose(p, clear_all_orders(st), r)
    ELSE SlAwait(p, st, [r EXCEPT !.pc = "cancel", !.todo = Tail(todo),
                                  !.asked = @ \cup {Head(todo)}],
                 Request("cancel_order", [id |-> Head(todo)]))

RECURSIVE SetToSeq(_)
SetToSeq(S) ==
    IF S = {} THEN <<>>
    ELSE LET x == CHOOSE y \in S : \A z \in S : y <= z
         IN  <<x>> \o SetToSeq(S \ {x})

SlStep(p) ==
    LET c == call[p]
        r == sl[p]
    IN  /\ r.pc # "off" /\ Answered(p)
        /\ CASE r.pc = "query" ->
                  IF c.state = "ok" /\ c.upnl < -stop_loss_usd
                  THEN SlAwait(p, st, [r EXCEPT !.pc = "open", !.qty = c.pos, !.upnl = c.upnl],
                               Request("query_open_orders", <<>>))
                  ELSE SlReturn(p, st, mk, bud, FALSE)
             [] r.pc = "open" ->
                  IF c.state = "ok"
                  THEN SlCancelFrom(p, [r EXCEPT !.open = c.open], SetToSeq(c.open))
                  ELSE SlClose(p, st, [r EXCEPT !.cancelErr = TRUE])
             [] r.pc = "cancel" ->
                  IF c.state = "ok" THEN SlCancelFrom(p, r, r.todo)
                  ELSE SlClose(p, st, [r EXCEPT !.cancelErr = TRUE])
             [] r.pc = "close" ->
                  IF c.state = "raise" THEN SlRecovery(p, st, [r EXCEPT !.closeErr = TRUE])
                  ELSE SlRecovery(p, update_position(st, 0, 0), r)
        /\ UNCHANGED <<now, cexWin, dexWin, volWin, imbWin, venue, uq>>

-----------------------------------------------------------------------------
(* Maker.run and Maker._tick: the steps of the loop *)

\* a Recovery gate that opens at the first check, whatever the volatility
TickRecoveryAtFirstCheck(w, t) ==
    LET w2 == [w EXCEPT !.mk.stop_loss_active = FALSE, !.obs.slChecked = TRUE]
        check == IF stop_loss_usd <= 0 THEN TickRisk(w2, t) /\ UNCHANGED sl
                 ELSE /\ TickAwait(w2, [t EXCEPT !.pc = "sl"],
                                   Request("query_positions", <<>>))
                      /\ sl' = [sl EXCEPT !["tick"].pc = "query"]
    IN  IF ~w.mk.stop_loss_active THEN check
        ELSE IF now < w.mk.next_recovery_check
        THEN /\ TickAwait([w EXCEPT !.obs.regime = "recovery"],
                          [t EXCEPT !.pc = "recovery_sleep", !.until = now + RECOVERY_SLEEP],
                          NoCall)
             /\ UNCHANGED sl
        ELSE check

\* maker.py 191-223: the Recovery gate; then the stop-loss check is started
TickRecovery(w, t) ==
    LET w2 == [w EXCEPT !.mk.stop_loss_active = FALSE, !.obs.slChecked = TRUE]
        check == IF stop_loss_usd <= 0 THEN TickRisk(w2, t) /\ UNCHANGED sl
                 ELSE /\ TickAwait(w2, [t EXCEPT !.pc = "sl"],
                                   Request("query_positions", <<>>))
                      /\ sl' = [sl EXCEPT !["tick"].pc = "query"]
    IN  IF ~w.mk.stop_loss_active THEN check
        ELSE IF now < w.mk.next_recovery_check
        THEN /\ TickAwait([w EXCEPT !.obs.regime = "recovery"],
                          [t EXCEPT !.pc = "recovery_sleep", !.until = now + RECOVERY_SLEEP],
                          NoCall)
             /\ UNCHANGED sl
        ELSE IF VolAbove(get_volatility_bps(recovery_window_sec, "auto"),
                         recovery_volatility_bps)
        THEN /\ TickReturn([w EXCEPT !.obs.regime = "recovery",
                    !.mk.next_recovery_check = now + recovery_check_interval_sec])
             /\ UNCHANGED sl
        ELSE check

\* Maker.run wakes up (event or 5 s timeout) and _tick runs to its first await
TickBegin ==
    /\ tk.pc = "idle" /\ mk.running
    /\ mk.pending_check \/ now >= tk.since + HEARTBEAT
    /\ LET w == [W EXCEPT !.mk.pending_check = FALSE,
                          !.obs = [ObsNew EXCEPT !.afterFlat = bud.flatTicks # NONE]]
           t == [tk EXCEPT !.pc = "run", !.now = now]
       IN  IF st.dex = NONE
           THEN TickReturn([w EXCEPT !.obs.regime = "nodata"]) /\ UNCHANGED sl
           ELSE TickRecovery(w, t)
    /\ UNCHANGED <<now, cexWin, dexWin, volWin, imbWin, venue, uq>>

\* asyncio.sleep(5) of the Recovery wait is over; the tick returns
RecoverySleepDone ==
    /\ tk.pc = "recovery_sleep" /\ now >= tk.until
    /\ TickReturn(W)
    /\ UNCHANGED <<now, cexWin, dexWin, volWin, imbWin, sl, venue, uq>>

\* _cancel_all_orders after its await (maker.py 653-657)
GuardCancelDone ==
    /\ tk.pc = "guard_cancel" /\ Answered("tick")
    /\ TickReturn(IF call["tick"].state = "ok" THEN [W EXCEPT !.st = clear_all_orders(st)]
                  ELSE W)
    /\ UNCHANGED <<now, cexWin, dexWin, volWin, imbWin, sl, venue, uq>>

\* the imbalance guard after its await (maker.py 383-388)
ImbalanceCancelDone ==
    /\ tk.pc = "imb_cancel" /\ Answered("tick")
    /\ TickReturn(IF call["tick"].state = "ok"
                  THEN [W EXCEPT !.st = set_order(st, Head(tk.todo).side, NoOrder)]
                  ELSE W)
    /\ UNCHANGED <<now, cexWin, dexWin, volWin, imbWin, sl, venue, uq>>

\* _check_and_reduce_position after query_positions (maker.py 809-850)
ReduceQueryDone ==
    /\ tk.pc = "reduce_query" /\ Answered("tick")
    /\ LET c == call["tick"]
           order == Request("new_order", [side |-> IF st.pos > 0 THEN "sell" ELSE "buy",
                                          otype |-> "market", qty |-> tk.cur_pos,
                                          ro |-> TRUE])
       IN  IF c.state = "ok" /\ c.upnl > min_profit_usd
           THEN TickAwait(Submitted([W EXCEPT !.obs.takeProfit = TRUE], order),
                          [tk EXCEPT !.pc = "reduce_order"], order)
           ELSE TickPlan(W, tk)
    /\ UNCHANGED <<now, cexWin, dexWin, volWin, imbWin, sl, venue, uq>>

\* _check_and_reduce_position after the market order (maker.py 852-871)
ReduceOrderDone ==
    /\ tk.pc = "reduce_order" /\ Answered("tick")
    /\ IF call["tick"].state = "ok"
       THEN TickReturn([W EXCEPT !.st = clear_all_orders(update_position(st, 0, 0))])
       ELSE TickPlan(W, tk)
    /\ UNCHANGED <<now, cexWin, dexWin, volWin, imbWin, sl, venue, uq>>

\* one round of the cancel loop after its await (maker.py 540-549)
CancelDone ==
    /\ tk.pc = "cancel" /\ Answered("tick")
    /\ CancelFrom(IF call["tick"].state = "ok"
                  THEN [W EXCEPT !.st = set_order(st, Head(tk.todo).side, NoOrder)]
                  ELSE W,
                  tk, Tail(tk.todo))
    /\ UNCHANGED <<now, cexWin, dexWin, volWin, imbWin, sl, venue, uq>>

\* _place_order after its await (maker.py 742-767), then the rest of
\* _place_missing_orders
PlaceDone ==
    /\ tk.pc \in {"place_buy", "place_sell"} /\ Answered("tick")
    /\ LET w == IF call["tick"].state = "ok"
                THEN [W EXCEPT !.st = set_order(st, tk.pend.side, tk.pend)]
                ELSE W
       IN  IF tk.pc = "place_buy" THEN PlaceFrom(w, tk, "sell") ELSE TickReturn(w)
    /\ UNCHANGED <<now, cexWin, dexWin, volWin, imbWin, sl, venue, uq>>

\* the stop-loss check of the tick, one step
TickStopLoss == tk.pc = "sl" /\ SlStep("tick")

\* the stop-loss task of on_position, one step
TaskStopLoss == sl["ws"].pc # "off" /\ SlStep("ws")

Next ==
    \/ AdvanceTime
    \/ on_price_update
    \/ on_cex_price_update
    \/ on_cex_volume_update
    \/ on_binance_depth
    \/ MarkMove
    \/ VenueFill
    \/ \E p \in Procs : VenueServe(p)
    \/ \E p \in Procs : VenueFault(p)
    \/ \E p \in Procs : VenueReject(p)
    \/ on_order
    \/ on_position
    \/ TickBegin
    \/ RecoverySleepDone
    \/ TickStopLoss
    \/ TaskStopLoss
    \/ GuardCancelDone
    \/ ImbalanceCancelDone
    \/ ReduceQueryDone
    \/ ReduceOrderDone
    \/ CancelDone
    \/ PlaceDone

Spec == Init /\ [][Next]_vars

-----------------------------------------------------------------------------
(* The planner's functions, applied to inputs drawn in the initial state:   *)
(* State.get_orders_to_cancel on a state with tracked orders,               *)
(* Maker._get_dynamic_distances on distance settings and a volatility       *)
(* ratio, and the planning stretch of Maker._tick (from the caution test to *)
(* its first await or return) on a state with tracked orders, a position    *)
(* and a last fill.  The tracked orders rest at any of PureOrderPrices: a   *)
(* partial fill is recorded as a fill and leaves the order tracked, so a    *)
(* flat position, a fresh fill and resting orders go together.              *)

\* tracked order prices and the feed prices around them, in ticks
PureOrderPrices == {9990, 10000, 10010}
PureDexPrices == {9995, 10000, 10005}
PureCexPrices == {NONE, 9988, 9992, 9998, 10000, 10002, 10012}
PureTargets == {60, 100, 140}
\* distance settings in tenths of a bps, and volatility ratios
PureDistances == {0, 1, 2, 50, 100}
PureRatios == {[num |-> 0, den |-> 1], [num |-> 1, den |-> 2], [num |-> 1, den |-> 1]}
\* the last CEX prices of the window, as offsets from the DEX price: one quiet
\* price, a rise, a fall, and one price 15 ticks away (spread above the warning)
PureCexMoves == {<<0>>, <<-1, 0>>, <<1, 0>>, <<15>>}
\* the CEX prices of the window around a DEX price, and a feed whose last
\* price is 0
PureCexWindows(dex) ==
    {[i \in 1..Len(moves) |-> dex + moves[i]] : moves \in PureCexMoves} \cup {<<dex, 0>>}

PureOrders(side) ==
    {NoOrder} \cup {OpenOrder(IF side = "buy" THEN 1 ELSE 2, side, p * SCALE, order_size_btc) :
                      p \in PureOrderPrices}

PureInit ==
    /\ now = StartTime
    /\ dexWin = <<>> /\ volWin = <<>> /\ imbWin = <<>>
    /\ mk = [running |-> FALSE, pending_check |-> FALSE,
             stop_loss_active |-> FALSE, next_recovery_check |-> 0,
             risk_guard_active |-> FALSE, cooldown_until |-> 0,
             stable_start |-> NONE, pending_close |-> FALSE]
    /\ sl = [p \in Procs |-> SlOff]
    /\ call = [p \in Procs |-> NoCall]
    /\ venue = [pos |-> 0, entry |-> 0, mark |-> 0, orders |-> {}]
    /\ uq = <<>>
    /\ bud = [env |-> 0, kind |-> "none", ids |-> 0, slDone |-> SlOff, flatTicks |-> NONE]
    /\ obs = ObsNew
    /\ \/ /\ cexWin = <<>>
          /\ \E dex \in PureDexPrices, cex \in PureCexPrices,
                 buy \in PureOrders("buy"), sell \in PureOrders("sell") :
                  st = [dex |-> dex, cex |-> cex, dexTs |-> StartTime, cexTs |-> StartTime,
                        pos |-> 0, entry |-> 0, lastFill |-> 0,
                        ord |-> [x \in Sides |-> IF x = "buy" THEN buy ELSE sell]]
          /\ \E buy_target \in PureTargets, sell_target \in PureTargets :
                  tk = [pc |-> "in", fn |-> "get_orders_to_cancel",
                        arg |-> [buy_bounds |-> Bounds(Config.tight_min, buy_target,
                                                      Config.cancel_min),
                                 sell_bounds |-> Bounds(Config.tight_min, sell_target,
                                                       Config.cancel_min)],
                        out |-> <<>>]
       \/ \E dex \in PureDexPrices, pos \in {-1, 0, 1}, last_fill \in {0, StartTime},
             buy \in PureOrders("buy"), sell \in PureOrders("sell"),
             other_side_enabled \in BOOLEAN :
          \E prices \in PureCexWindows(dex) :
              /\ cexWin = [i \in 1..Len(prices) |-> [t |-> StartTime, v |-> prices[i]]]
              /\ st = [dex |-> dex, cex |-> prices[Len(prices)],
                       dexTs |-> StartTime, cexTs |-> StartTime,
                       pos |-> pos, entry |-> IF pos = 0 THEN 0 ELSE dex,
                       lastFill |-> last_fill,
                       ord |-> [x \in Sides |-> IF x = "buy" THEN buy ELSE sell]]
              /\ tk = [pc |-> "in", fn |-> "_tick",
                       arg |-> [caution_other_side_enabled |-> other_side_enabled],
                       out |-> <<>>]
       \/ /\ cexWin = <<>>
          /\ st = [dex |-> NONE, cex |-> NONE, dexTs |-> 0, cexTs |-> 0,
                    pos |-> 0, entry |-> 0, lastFill |-> 0,
                    ord |-> [x \in Sides |-> NoOrder]]
          /\ \E tight_min \in PureDistances, tight_max \in PureDistances,
                 cancel_min \in PureDistances, cancel_max \in PureDistances,
                 vol_ratio \in PureRatios :
                  tk = [pc |-> "in", fn |-> "_get_dynamic_distances",
                        arg |-> [c |-> [Config EXCEPT !.tight_min = tight_min,
                                                      !.tight_max = tight_max,
                                                      !.cancel_min = cancel_min,
                                                      !.cancel_max = cancel_max],
                                 vol_ratio |-> vol_ratio],
                        out |-> <<>>]

ApplyGetOrdersToCancel ==
    /\ tk.pc = "in" /\ tk.fn = "get_orders_to_cancel"
    /\ tk' = [tk EXCEPT !.pc = "out",
                        !.out = get_orders_to_cancel(st, tk.arg.buy_bounds, tk.arg.sell_bounds)]
    /\ UNCHANGED <<now, st, cexWin, dexWin, volWin, imbWin, mk, sl, call, venue, uq, bud, obs>>

ApplyDynamicDistances ==
    /\ tk.pc = "in" /\ tk.fn = "_get_dynamic_distances"
    /\ tk' = [tk EXCEPT !.pc = "out",
                        !.out = DynamicDistances(tk.arg.c, tk.arg.vol_ratio)]
    /\ UNCHANGED <<now, st, cexWin, dexWin, volWin, imbWin, mk, sl, call, venue, uq, bud, obs>>

\* maker.py 390-560 on the drawn state, up to the first await or the return
ApplyTickQuote ==
    /\ tk.pc = "in" /\ tk.fn = "_tick"
    /\ LET vr == _get_volatility_ratio
       IN  TickQuoteWith(tk.arg.caution_other_side_enabled, W,
                         [TkIdle(StartTime) EXCEPT !.pc = "run", !.now = now],
                         _get_dynamic_distances(vr.ratio), vr.vol)
    /\ UNCHANGED <<now, cexWin, dexWin, volWin, imbWin, sl, venue, uq>>

PureNext ==
    \/ ApplyGetOrdersToCancel
    \/ ApplyDynamicDistances
    \/ ApplyTickQuote

PureSpec == PureInit /\ [][PureNext]_vars

-----------------------------------------------------------------------------
(* StreamSpec: the loop and the user stream in a market that stands still.  *)
(* The bot starts with the open orders Maker.initialize found at the venue, *)
(* which may be larger than one lot and may come with an order initialize   *)
(* did not keep (two orders on one side: the later one wins).  The venue    *)
(* fills a part of an order, reports an order as open, sends a message with *)
(* a field that is not a number; the connection of the user stream drops    *)
(* and is made again; the process is told to exit.  What the venue holds at *)
(* the start counts as the first act of the environment.                    *)

\* the client order id of an order this process did not place
ForeignId == MaxIds + 1
AdoptedOrder(side) ==
    IF side = "buy" THEN OpenOrder(1, "buy", 9990 * SCALE, 2)
    ELSE OpenOrder(2, "sell", 10010 * SCALE, 2)
\* an order as the venue holds it
VenueOrder(o) ==
    [id |-> o.id, side |-> o.side, price |-> o.price \div SCALE, qty |-> o.qty, ro |-> FALSE]

StreamInit ==
    /\ now = StartTime
    /\ \E adopted \in {{}, {"buy"}, Sides}, foreign \in BOOLEAN :
        /\ foreign <=> adopted = {"buy"}
        /\ st = [dex |-> 10000, cex |-> 10000, dexTs |-> StartTime, cexTs |-> StartTime,
                 pos |-> 0, entry |-> 0, lastFill |-> 0,
                 ord |-> [s \in Sides |-> IF s \in adopted THEN AdoptedOrder(s) ELSE NoOrder]]
        /\ venue = [pos |-> 0, entry |-> 0, mark |-> 0,
                    orders |-> {VenueOrder(AdoptedOrder(s)) : s \in adopted} \cup
                               (IF foreign
                                THEN {VenueOrder(OpenOrder(ForeignId, "buy", 9985 * SCALE, 1))}
                                ELSE {})]
    /\ dexWin = <<[t |-> StartTime, v |-> 10000]>>
    /\ cexWin = <<[t |-> StartTime, v |-> 10000]>>
    /\ imbWin = <<>>
    /\ volWin = <<>>
    /\ mk = [running |-> TRUE, pending_check |-> FALSE,
             stop_loss_active |-> FALSE, next_recovery_check |-> 0,
             risk_guard_active |-> FALSE, cooldown_until |-> 0,
             stable_start |-> NONE, pending_close |-> FALSE]
    /\ tk = TkIdle(StartTime)
    /\ sl = [p \in Procs |-> SlOff]
    /\ call = [p \in Procs |-> NoCall]
    /\ uq = <<>>
    /\ bud = [env |-> 1, kind |-> "trade", ids |-> 2, slDone |-> SlOff, flatTicks |-> NONE]
    /\ obs = ObsNew

\* what float() may fail on in an order message and in a position message
BadOrderFields == {"none", "pnl", "leaves_qty"}
BadPositionFields == {"none", "qty"}

\* one lot of a resting order of several lots trades
VenuePartialFill ==
    /\ EnvEvent("trade")
    /\ Len(uq) + 2 <= MaxQueue
    /\ \E o \in venue.orders, bo \in BadOrderFields, bp \in BadPositionFields :
        LET rest == [o EXCEPT !.qty = @ - 1]
            v2 == Traded([venue EXCEPT !.orders = (@ \ {o}) \cup {rest}], o.side, 1, o.price)
        IN  /\ o.qty >= 2
            /\ bo = "none" \/ bp = "none"
            /\ venue' = v2
            /\ uq' = uq \o <<[OrderEvent(o.id, o.side, "partially_filled")
                                 EXCEPT !.leaves = rest.qty, !.bad = bo],
                              [PositionEventOf(v2) EXCEPT !.bad = bp]>>
    /\ UNCHANGED <<now, st, cexWin, dexWin, volWin, imbWin, mk, tk, sl, call, obs>>

\* the venue reports a resting order as open
VenueReportsOpen ==
    /\ EnvEvent("trade")
    /\ Len(uq) < MaxQueue
    /\ \E o \in venue.orders : uq' = Append(uq, OrderEvent(o.id, o.side, "open"))
    /\ UNCHANGED <<now, st, cexWin, dexWin, volWin, imbWin, mk, tk, sl, call, venue, obs>>

\* UserWSClient.run / _reconnect: the connection drops with messages on the
\* way, which are lost; connect() authenticates again, which subscribes to
\* the order and position channels, and nothing else follows
_reconnect ==
    /\ EnvEvent("trade")
    /\ uq # <<>>
    /\ uq' = <<>>
    /\ UNCHANGED <<now, st, cexWin, dexWin, volWin, imbWin, mk, tk, sl, call, venue, obs>>

\* main.py: a task of main() ends or the process is interrupted between two
\* ticks; Maker.stop, the pending tasks are cancelled, and the finally block
\* collects the tracked ids and awaits one cancel_orders call for them
TrackedOrderIds(s) == {s.ord[x].id : x \in {y \in Sides : s.ord[y] # NoOrder}}
shutdown ==
    /\ EnvEvent("trade")
    /\ mk.running /\ tk.pc = "idle" /\ call["tick"] = NoCall
    /\ mk' = [mk EXCEPT !.running = FALSE, !.pending_check = TRUE]
    /\ LET orders_to_cancel == TrackedOrderIds(st)
       IN  IF orders_to_cancel # {}
           THEN /\ tk' = [tk EXCEPT !.pc = "cleanup"]
                /\ call' = [call EXCEPT !["tick"] =
                                Request("cancel_orders", [ids |-> orders_to_cancel])]
           ELSE /\ tk' = [tk EXCEPT !.pc = "exit"]
                /\ UNCHANGED call
    /\ UNCHANGED <<now, st, cexWin, dexWin, volWin, imbWin, sl, venue, uq, obs>>

\* a finally block that clears the tracking whatever the call did
CleanupClearsAnyway ==
    /\ tk.pc = "cleanup" /\ Answered("tick")
    /\ st' = clear_all_orders(st)
    /\ tk' = [tk EXCEPT !.pc = "exit"]
    /\ call' = [call EXCEPT !["tick"] = NoCall]
    /\ UNCHANGED <<now, cexWin, dexWin, volWin, imbWin, mk, sl, venue, uq, bud, obs>>

\* the finally block after its await: the tracking is cleared when the call
\* returned; an exception is logged; http_client.close() and the end
CleanupDone ==
    /\ tk.pc = "cleanup" /\ Answered("tick")
    /\ st' = IF call["tick"].state = "raise" THEN st ELSE clear_all_orders(st)
    /\ tk' = [tk EXCEPT !.pc = "exit"]
    /\ call' = [call EXCEPT !["tick"] = NoCall]
    /\ UNCHANGED <<now, cexWin, dexWin, volWin, imbWin, mk, sl, venue, uq, bud, obs>>

StreamNext ==
    \/ AdvanceTime
    \/ MarkMove
    \/ VenuePartialFill
    \/ VenueReportsOpen
    \/ _reconnect
    \/ \E p \in Procs : VenueServe(p)
    \/ \E p \in Procs : VenueFault(p)
    \/ on_order
    \/ on_position
    \/ TickBegin
    \/ RecoverySleepDone
    \/ TickStopLoss
    \/ TaskStopLoss
    \/ GuardCancelDone
    \/ ReduceQueryDone
    \/ ReduceOrderDone
    \/ CancelDone
    \/ PlaceDone
    \/ shutdown
    \/ CleanupDone

StreamSpec == StreamInit /\ [][StreamNext]_vars

-----------------------------------------------------------------------------
(* LoopSpec: Maker.run and Maker.stop.  The market stands still; the bot     *)
(* starts flat with nothing tracked or with one order adopted on each side, *)
(* and the last DEX price message may have carried the price 0 (main.py 154 *)
(* tests the text of the field, so "0" passes).  With a DEX price of 0 and  *)
(* an order tracked the tick raises ZeroDivisionError in                    *)
(* State.get_orders_to_cancel.  Maker.stop is called once, at any moment.   *)

LoopInit ==
    /\ now = StartTime
    /\ \E adopted \in {{}, Sides}, dex \in {10000, 0} :
        /\ dex = 0 => adopted = Sides
        /\ st = [dex |-> dex, cex |-> 10000, dexTs |-> StartTime, cexTs |-> StartTime,
                 pos |-> 0, entry |-> 0, lastFill |-> 0,
                 ord |-> [s \in Sides |-> IF s \in adopted THEN AdoptedOrder(s) ELSE NoOrder]]
        /\ venue = [pos |-> 0, entry |-> 0, mark |-> 0,
                    orders |-> {VenueOrder(AdoptedOrder(s)) : s \in adopted}]
        /\ dexWin = <<[t |-> StartTime, v |-> dex]>>
    /\ cexWin = <<[t |-> StartTime, v |-> 10000]>>
    /\ imbWin = <<>>
    /\ volWin = <<>>
    /\ mk = [running |-> TRUE, pending_check |-> FALSE,
             stop_loss_active |-> FALSE, next_recovery_check |-> 0,
             risk_guard_active |-> FALSE, cooldown_until |-> 0,
             stable_start |-> NONE, pending_close |-> FALSE]
    /\ tk = TkIdle(StartTime)
    /\ sl = [p \in Procs |-> SlOff]
    /\ call = [p \in Procs |-> NoCall]
    /\ uq = <<>>
    /\ bud = [env |-> 0, kind |-> "none", ids |-> 2, slDone |-> SlOff, flatTicks |-> NONE]
    /\ obs = ObsNew

\* Maker.stop (maker.py 171-174): _running = False and the wake signal is
\* set; a loop that is at its wait is woken by it
stop ==
    /\ EnvEvent("trade")
    /\ mk.running
    /\ mk' = [mk EXCEPT !.running = FALSE, !.pending_check = TRUE]
    /\ tk' = IF tk.pc = "idle" THEN [tk EXCEPT !.pc = "woken"] ELSE tk
    /\ UNCHANGED <<now, st, cexWin, dexWin, volWin, imbWin, sl, call, venue, uq, obs>>

\* Maker.run after the wait that stop() ended (maker.py 157-163): the signal
\* is cleared and _tick is awaited; _running is not read here
TickBeginWoken ==
    /\ tk.pc = "woken"
    /\ LET w == [W EXCEPT !.mk.pending_check = FALSE,
                          !.obs = [ObsNew EXCEPT !.afterFlat = bud.flatTicks # NONE]]
           t == [tk EXCEPT !.pc = "run", !.now = now]
       IN  IF st.dex = NONE
           THEN TickReturn([w EXCEPT !.obs.regime = "nodata"]) /\ UNCHANGED sl
           ELSE TickRecovery(w, t)
    /\ UNCHANGED <<now, cexWin, dexWin, volWin, imbWin, venue, uq>>

\* asyncio.sleep(1) after a tick that raised is over (maker.py 167), and the
\* loop is at its while test again
ErrorSleepDone ==
    /\ tk.pc = "error_sleep"
    /\ tk' = IF mk.running THEN TkIdle(now) ELSE [tk EXCEPT !.pc = "stopped"]
    /\ UNCHANGED <<now, st, cexWin, dexWin, volWin, imbWin, mk, sl, call, venue, uq, bud, obs>>

\* the while test after a tick that returned finds _running False
\* (maker.py 153, 169)
LoopExit ==
    /\ tk.pc = "idle" /\ ~mk.running
    /\ tk' = [tk EXCEPT !.pc = "stopped"]
    /\ UNCHANGED <<now, st, cexWin, dexWin, volWin, imbWin, mk, sl, call, venue, uq, bud, obs>>

LoopNext ==
    \/ AdvanceTime
    \/ stop
    \/ \E p \in Procs : VenueServe(p)
    \/ TickBegin
    \/ TickBeginWoken
    \/ TickStopLoss
    \/ PlaceDone
    \/ ErrorSleepDone
    \/ LoopExit

LoopSpec == LoopInit /\ [][LoopNext]_vars

-----------------------------------------------------------------------------
(* CloseSpec: the stop-loss check of the position events.  The bot starts   *)
(* long one lot with the mark at the entry price and both feeds warm; the   *)
(* market feeds are silent, no order fills and every venue call is served.  *)
(* Every task of the event loop that can run does run, every request is     *)
(* answered, and time passes (weak fairness); when the mark moves is up to  *)
(* the environment.                                                         *)

\* the mark moves at most this many times in a run of CloseSpec
MaxMarkMoves == 2

CloseInit ==
    /\ now = StartTime
    /\ st = [dex |-> 10000, cex |-> 10000, dexTs |-> StartTime, cexTs |-> StartTime,
             pos |-> 1, entry |-> 10000, lastFill |-> 0,
             ord |-> [s \in Sides |-> NoOrder]]
    /\ venue = [pos |-> 1, entry |-> 10000, mark |-> 0, orders |-> {}]
    /\ dexWin = <<[t |-> StartTime, v |-> 10000]>>
    /\ cexWin = <<[t |-> StartTime, v |-> 10000]>>
    /\ imbWin = <<>>
    /\ volWin = <<>>
    /\ mk = [running |-> TRUE, pending_check |-> TRUE,
             stop_loss_active |-> FALSE, next_recovery_check |-> 0,
             risk_guard_active |-> FALSE, cooldown_until |-> 0,
             stable_start |-> NONE, pending_close |-> FALSE]
    /\ tk = TkIdle(StartTime)
    /\ sl = [p \in Procs |-> SlOff]
    /\ call = [p \in Procs |-> NoCall]
    /\ uq = <<>>
    /\ bud = [env |-> 0, kind |-> "none", ids |-> 0, slDone |-> SlOff, flatTicks |-> NONE]
    /\ obs = ObsNew

\* the steps of the venue, the clock, the user stream and the stop-loss task
CloseProgress ==
    \/ AdvanceTime
    \/ \E p \in Procs : VenueServe(p)
    \/ on_order
    \/ on_position
    \/ TickBegin
    \/ RecoverySleepDone
    \/ TaskStopLoss
    \/ GuardCancelDone
    \/ PlaceDone

\* the steps of _tick that go on into the planning stretch
TickResume ==
    \/ TickStopLoss
    \/ ReduceQueryDone
    \/ ReduceOrderDone

\* the enabling condition of TickResume: _tick waits on an answered call
TickResumeReady ==
    \/ tk.pc = "sl" /\ sl["tick"].pc # "off" /\ Answered("tick")
    \/ tk.pc \in {"reduce_query", "reduce_order"} /\ Answered("tick")

CloseNext ==
    \/ CloseProgress
    \/ TickResume
    \/ bud.env < MaxMarkMoves /\ MarkMove

\* the event loop runs every ready coroutine and the venue answers every call:
\* weak fairness of CloseProgress and of TickResume, the latter written out
\* with its enabling condition
CloseSpec ==
    /\ CloseInit /\ [][CloseNext]_vars
    /\ WF_vars(CloseProgress)
    /\ ([]<>~TickResumeReady \/ []<><<TickResume>>_vars)

-----------------------------------------------------------------------------
(* Claims *)

LimitSubs == {i \in 1..Len(obs.subs) : obs.subs[i].otype = "limit"}
MarketSubs == {i \in 1..Len(obs.subs) : obs.subs[i].otype = "market"}
ExitSide(pos) == IF pos > 0 THEN "sell" ELSE IF pos < 0 THEN "buy" ELSE "none"

\* C1: a tick whose regime is Recovery (the latch holds the tick, or the
\* stop-loss fires in it), Stale or Guard submits no limit order.
C1_NoQuoteWhilePaused ==
    obs.regime \in {"recovery", "stop", "stale", "guard"} => LimitSubs = {}

\* a guard trigger fired in a tick that found tracked orders, and cancels them
C1_Witness ==
    /\ obs.regime = "guard" /\ tk.pc = "guard_cancel"
    /\ has_order("buy") /\ has_order("sell")

C3_StopLossEveryTick ==
    obs.regime \notin {"none", "nodata"} => obs.slChecked

\* C4: the two activations of the stop-loss routine never both have a close
\* order in flight.
CloseInFlight(p) ==
    call[p].op = "new_order" /\ call[p].stoploss /\ call[p].state \in {"sent", "ok"}
C4_OneCloseInFlight == ~(CloseInFlight("tick") /\ CloseInFlight("ws"))

\* C5: when a routine resets a set pending_close latch, the position the bot
\* holds in its state is zero.
C5_LatchClearedOnlyWhenFlat ==
    (bud.slDone.pc = "done" /\ bud.slDone.latch) => bud.slDone.pos = 0

\* C6: the limit orders a tick submits while |position| >= max_position are
\* at most one, on the exit side.
C6_AtMaxOnlyExit ==
    LET atMax == {i \in LimitSubs : Abs(obs.subs[i].pos) >= max_position_btc}
    IN  /\ Cardinality(atMax) <= 1
        /\ \A i \in atMax : obs.subs[i].side = ExitSide(obs.subs[i].pos)

\* C7: a tick that takes profit submits exactly one market order, reduce-only,
\* of size |position| on the exit side, and neither places nor cancels a
\* limit order.
C7_ProfitTakeOnly ==
    obs.takeProfit =>
        /\ Cardinality(MarketSubs) = 1
        /\ \A i \in MarketSubs :
              /\ obs.subs[i].ro
              /\ obs.subs[i].qty = Abs(obs.subs[i].pos)
              /\ obs.subs[i].side = ExitSide(obs.subs[i].pos)
        /\ LimitSubs = {}
        /\ obs.cancels = 0

\* C8: a limit order submitted on the exit side while position # 0 and
\* entry_price > 0 is reduce-only, has quantity |position| and an aligned
\* price not on the losing side of break-even.
C8_ExitOrderShape ==
    \A i \in LimitSubs :
        LET u == obs.subs[i]
        IN  (u.pos # 0 /\ u.entry > 0 /\ u.side = ExitSide(u.pos)) =>
                /\ u.ro
                /\ u.qty = Abs(u.pos)
                /\ IF u.side = "sell"
                   THEN u.price * SCALE >= u.entry * (SCALE + required_margin)
                   ELSE u.price * SCALE <= u.entry * (SCALE - required_margin)

\* C9: once a position event has reported the position flat, no reduce-only
\* order is open at the venue after two more ticks have run.
C9_NoReduceOnlyAfterFlat ==
    ~(bud.flatTicks = 2 /\ \E o \in venue.orders : o.ro)

\* C10: the risk guard is released only in a tick in which the depth
\* imbalance (a warn-level metric) is quiet.
C10_ReleaseOnlyWhenQuiet ==
    (obs.resumed /\ tk.pc # "idle") => ImbalanceDir(imbalance_warn_threshold) = 0

\* C11: when a tick that is not held by Recovery, not stale and not inside an
\* active guard evaluates the guard triggers, and the CEX/DEX spread is above
\* spread_threshold_bps, or the amplitude above amplitude_ratio_threshold *
\* tight, or the consecutive-direction count has reached
\* velocity_tick_threshold, or the volume ratio is above volume_guard_ratio,
\* then that step sets the risk guard active with cooldown_until = now +
\* risk_guard_cooldown_sec and, when orders are tracked, sends one batch
\* cancel naming all of them.
TightNow == _get_dynamic_distances(_get_volatility_ratio.ratio).tight
TrackedIds == {st.ord[x].id : x \in {y \in Sides : st.ord[y] # NoOrder}}
SpreadBps == Abs(st.cex - st.dex) * SCALE
GuardCondition ==
    \/ (st.cex # NONE /\ st.dex > 0 /\ SpreadBps > spread_threshold_bps * st.dex)
    \/ LET amp == get_cex_amplitude(amplitude_window_sec)
       IN  amp.num * 10 > amplitude_ratio_threshold * TightNow * amp.den
    \/ get_trend_direction(velocity_check_window_sec, velocity_tick_threshold, "cex") # 0
    \/ LET v == get_cex_volume_ratio(volume_window_sec, volume_min_samples)
       IN  v.samples >= volume_min_samples /\ v.num * 10 > volume_guard_ratio * v.den
CexVolatile ==
    VolAbove(get_volatility_bps(recovery_window_sec, "cex"), recovery_volatility_bps)
C12_RecoveryExit ==
    [][/\ (mk.stop_loss_active /\ ~mk'.stop_loss_active)
            => now >= mk.next_recovery_check /\ ~CexVolatile
       /\ (TickBegin /\ st.dex # NONE /\ mk.stop_loss_active
              /\ now >= mk.next_recovery_check /\ CexVolatile)
            => /\ mk'.stop_loss_active
               /\ mk'.next_recovery_check = now + recovery_check_interval_sec
               /\ tk'.pc = "idle"]_vars

\* a recovery check, due since the stop-loss cooldown ran out, found the CEX
\* volatile and put the next check off
C12_Witness ==
    /\ mk.stop_loss_active /\ obs.regime = "recovery" /\ tk.pc = "idle" /\ tk.since = now
    /\ bud.slDone.pc = "done" /\ now >= bud.slDone.at + stop_loss_cooldown_sec
    /\ CexVolatile /\ mk.next_recovery_check = now + recovery_check_interval_sec

CancelNow == _get_dynamic_distances(_get_volatility_ratio.ratio).cancel
DexDistance(s, o) == Abs(o.price - s.dex * SCALE)
OutsideClaimedBand(s, o, target) ==
    \/ DexDistance(s, o) < (target - (TightNow - CancelNow)) * s.dex
    \/ DexDistance(s, o) > (target + (rebalance_distance_bps - TightNow)) * s.dex
CexDanger(s, o) ==
    /\ s.cex # NONE /\ s.cex > 0
    /\ IF o.side = "buy"
       THEN s.cex * SCALE - o.price < CEX_DANGER_THRESHOLD_BPS * s.cex
       ELSE o.price - s.cex * SCALE < CEX_DANGER_THRESHOLD_BPS * s.cex
PlanTarget(side) == IF side = "buy" THEN obs.plan.buy_target ELSE obs.plan.sell_target
C14_BandCancel ==
    [][/\ (~obs.plan.made /\ obs'.plan.made) =>
            \A side \in Sides :
                LET o == st'.ord[side]
                IN  o # NoOrder =>
                      /\ OutsideClaimedBand(st', o, PlanTarget(side)')
                            => (o.id \in obs'.plan.cancel /\ tk'.pc = "cancel")
                      /\ (side \in obs'.plan.allowed /\ ~CexDanger(st', o)
                            /\ ~OutsideClaimedBand(st', o, PlanTarget(side)'))
                            => o.id \notin obs'.plan.cancel
       /\ (tk.pc = "cancel" /\ call["tick"].state = "ok" /\ tk'.pc # tk.pc)
            => st'.ord[Head(tk.todo).side] = NoOrder]_vars

\* C15: get_orders_to_cancel returns a tracked buy order whenever the CEX
\* price is at or below the order price plus 2 bps, and a tracked sell order
\* whenever the CEX price is at or above the order price minus 2 bps,
\* whatever the order's distance from the DEX price.
Returned(o) == \E i \in 1..Len(tk.out) : tk.out[i] = o
\* the price of a tracked order in ticks (PureOrderPrices are whole ticks)
TicksOf(o) == o.price \div SCALE
C15_CexDangerCancels ==
    (tk.pc = "out" /\ tk.fn = "get_orders_to_cancel" /\ st.cex # NONE) =>
        /\ (st.ord["buy"] # NoOrder
              /\ st.cex * SCALE
                   <= TicksOf(st.ord["buy"]) * (SCALE + CEX_DANGER_THRESHOLD_BPS))
              => Returned(st.ord["buy"])
        /\ (st.ord["sell"] # NoOrder
              /\ st.cex * SCALE
                   >= TicksOf(st.ord["sell"]) * (SCALE - CEX_DANGER_THRESHOLD_BPS))
              => Returned(st.ord["sell"])

\* C16: a tick that finds now - last_fill_time < fill_cooldown_sec and
\* position 0 submits no limit order, and still sends a cancel for a tracked
\* order that is outside its cancel band.
InCooldown == now - st.lastFill < fill_cooldown_sec /\ st.pos = 0
NormalBounds == Bounds(TightNow, TightNow, CancelNow)
OutsideBand(s, o, bounds) ==
    DexDistance(s, o) < bounds[1] * s.dex \/ DexDistance(s, o) > bounds[2] * s.dex
C16_CooldownKeepsBands ==
    (tk.pc \notin {"in", "out"} /\ obs.regime = "normal" /\ InCooldown) =>
        /\ LimitSubs = {}
        /\ \A side \in Sides :
              (st.ord[side] # NoOrder /\ OutsideBand(st, st.ord[side], NormalBounds))
                => (tk.pc = "cancel" /\ \E i \in 1..Len(tk.todo) : tk.todo[i] = st.ord[side])

\* C17: the target distance the planning step works out for a side it is
\* about to quote (allowed, nothing tracked, nothing to cancel first) is
\* max(0, tight + skew) for the buy and max(0, tight - skew) for the sell in
\* Normal and on the near side in Caution, and exactly far on the risky side
\* in Caution, with skew = clamp(position / max_position, -1, 1) * max_skew.
FarNow == _get_dynamic_distances(_get_volatility_ratio.ratio).far
ClaimedSkew(pos) ==
    (Max2(-max_position_btc, Min2(max_position_btc, pos)) * max_skew_bps) \div max_position_btc
RiskySide == IF CautionDirection >= 0 THEN "sell" ELSE "buy"
ClaimedTarget(regime, pos, side) ==
    IF regime = "caution" /\ side = RiskySide THEN FarNow
    ELSE IF side = "buy" THEN Max2(0, TightNow + ClaimedSkew(pos))
    ELSE Max2(0, TightNow - ClaimedSkew(pos))
C17_TargetDistances ==
    [][(~obs.plan.made /\ obs'.plan.made /\ obs'.plan.cancel = {}) =>
          \A side \in obs'.plan.allowed :
              st'.ord[side] = NoOrder
                => PlanTarget(side)' = ClaimedTarget(obs'.regime, st'.pos, side)]_vars

\* C18: for every volatility ratio in [0, 1] and every setting of the min/max
\* distances, _get_dynamic_distances returns cancel_bps below tight_bps by at
\* least 0.1 bps.
C18_CancelBelowTight ==
    (tk.pc = "out" /\ tk.fn = "_get_dynamic_distances") =>
        /\ tk.out.cancel < tk.out.tight
        /\ tk.out.tight - tk.out.cancel >= 1

\* C19: in Caution with caution_other_side_enabled = false, limit orders are
\* placed only on the safe side (buy under buy pressure, sell under sell
\* pressure) and a tracked order on the other side is put on the cancel list.
SafeSide == IF CautionDirection > 0 THEN "buy" ELSE "sell"
RiskSide == IF CautionDirection > 0 THEN "sell" ELSE "buy"
PlanningDone == obs.plan.made \/ tk.pc = "idle"
C19_CautionSafeSideOnly ==
    (/\ tk.pc \notin {"in", "out"} /\ PlanningDone
     /\ obs.regime = "caution" /\ ~obs.other_side /\ CautionDirection # 0) =>
        /\ \A i \in LimitSubs : obs.subs[i].side = SafeSide
        /\ st.ord[RiskSide] # NoOrder => st.ord[RiskSide].id \in obs.plan.cancel

\* C20: a Normal tick with position 0, nothing tracked, no fill cooldown and a
\* positive DEX price sends one buy at floor(dex * (1 - tight/10^4)) and then
\* one sell at ceil(dex * (1 + tight/10^4)), each a limit order of
\* order_size_btc, and tracks each one the venue accepts (S1: DEX 60000 and
\* tight 10 bps give 59940.00 and 60060.00; in the units here DEX 10000 and
\* tight 10 bps give 9990 and 10010).  Position 0 is the position the tick
\* read when it chose the sides and still has when it plans.
NothingTracked == \A side \in Sides : st.ord[side] = NoOrder
QuoteRequest(c, side, price) ==
    /\ c.op = "new_order" /\ c.state = "sent" /\ c.side = side /\ c.otype = "limit"
    /\ c.qty = order_size_btc /\ ~c.ro /\ c.price = price
BothSidesTick ==
    obs.regime = "normal" /\ obs.plan.made /\ obs.plan.allowed = Sides /\ obs.plan.cancel = {}
C20_QuotesBothSides ==
    [][/\ (/\ ~obs.plan.made /\ obs'.plan.made /\ obs'.regime = "normal"
           /\ obs'.plan.allowed = Sides /\ st'.pos = 0 /\ st'.dex > 0
           /\ NothingTracked' /\ now - st'.lastFill >= fill_cooldown_sec) =>
              /\ tk'.pc = "place_buy"
              /\ QuoteRequest(call'["tick"], "buy",
                              FloorDiv(st'.dex * (SCALE - TightNow), SCALE))
              /\ tk'.sell_px = st'.dex * (SCALE + TightNow)
       /\ (/\ BothSidesTick /\ tk.pc = "place_buy" /\ tk'.pc # "place_buy"
           /\ Len(obs.subs) = 1 /\ st.ord["sell"] = NoOrder) =>
              /\ call["tick"].state = "ok" =>
                     /\ st'.ord["buy"].id = call["tick"].id
                     /\ st'.ord["buy"].qty = order_size_btc
              /\ tk'.pc = "place_sell"
              /\ QuoteRequest(call'["tick"], "sell", CeilDiv(tk.sell_px, SCALE))
       /\ (/\ BothSidesTick /\ tk.pc = "place_sell" /\ tk'.pc # "place_sell"
           /\ Len(obs.subs) = 2 /\ call["tick"].state = "ok") =>
              /\ st'.ord["sell"].id = call["tick"].id
              /\ st'.ord["sell"].qty = order_size_btc
              /\ st'.ord["sell"].side = "sell"
      ]_vars

\* C21: when the last price of the volatility window is 0, the volatility is
\* reported as infinite and the tick places no quote.
LastPriceZero ==
    LET prices == Since(_get_window("auto"), now - volatility_window_sec)
    IN  Len(prices) >= 2 /\ prices[Len(prices)] = 0
C21_ZeroPriceNoQuote ==
    (tk.pc \notin {"in", "out"} /\ obs.regime # "none" /\ LastPriceZero
     /\ ~GuardTrigger(st, TightNow)) =>
        /\ get_volatility_bps(volatility_window_sec, "auto").inf
        /\ LimitSubs = {}

\* the user stream hands its next message to its callback
Delivered == uq # <<>> /\ uq' = Tail(uq) /\ bud'.env = bud.env
CancelAsked(c, id) ==
    c.op \in {"cancel_order", "cancel_orders"} /\ (c.id = id \/ id \in c.ids)

\* C22: an order event that reports as open an order whose client order id
\* is not tracked (and has no pending cancel) leaves the tracked orders as
\* they are and has a cancel issued for that order.
OrphanReport ==
    /\ uq # <<>> /\ Head(uq).kind = "order" /\ Head(uq).status = "open"
    /\ Head(uq).id \notin TrackedOrderIds(st) \cup _pending_cancels
C22_OrphanCancelled ==
    [][(OrphanReport /\ Delivered) =>
          /\ st'.ord = st.ord
          /\ \E p \in Procs : CancelAsked(call'[p], Head(uq).id)]_vars

\* C23: the venue's answer to a cancel the tick issues for an order that is
\* no longer open at the venue reaches the tick without an error, and when
\* the tick goes on after it the order is not tracked any more.
TerminalCancel ==
    /\ tk.pc = "cancel" /\ call["tick"].op = "cancel_order"
    /\ call["tick"].id \notin OpenIds
C23_TerminalCancelNoOp ==
    [][/\ (TerminalCancel /\ call["tick"].state = "sent" /\ bud' = bud
           /\ call'["tick"].state # "sent")
          => call'["tick"].state = "ok"
       /\ (TerminalCancel /\ call["tick"].state = "ok" /\ tk' # tk)
          => st'.ord[Head(tk.todo).side] = NoOrder]_vars

\* C24: the allowed sides and the skewed targets a tick plans with come
\* from one view of the position: in the Normal regime there is one
\* position for which the sides are those of the inventory rule and the
\* targets are the tight distance moved by that position's skew.
SidesFor(pos) == IF pos > 0 THEN {"sell"} ELSE IF pos < 0 THEN {"buy"} ELSE Sides
SkewFor(pos) == _get_skew_bps([pos |-> pos])
PlannedWith(plan, pos) ==
    /\ plan.allowed = SidesFor(pos)
    /\ plan.buy_target = Max2(0, TightNow + SkewFor(pos))
    /\ plan.sell_target = Max2(0, TightNow - SkewFor(pos))
C24_OneView ==
    [][(~obs.plan.made /\ obs'.plan.made /\ obs'.regime = "normal") =>
          \E pos \in -max_position_btc..max_position_btc :
              PlannedWith(obs'.plan, pos)]_vars

\* C25: the wake signal is one flag.  It is cleared only by the loop at the
\* start of a tick, so a signal raised before or during a tick is still up
\* when that tick ends; a tick starts only on the flag or on the heartbeat
\* and takes the whole flag with it, so the signals raised during one tick
\* start one tick.
WakeWaiting == tk.pc = "idle" /\ mk.running
C25_WakeCoalesced ==
    [][/\ (mk.pending_check /\ ~mk'.pending_check) => WakeWaiting
       /\ (tk.pc = "idle" /\ tk'.pc # "idle") =>
              /\ mk.running
              /\ mk.pending_check \/ now >= tk.since + HEARTBEAT
              /\ ~mk'.pending_check
       /\ (mk.pending_check /\ tk.pc # "idle" /\ tk'.pc = "idle") =>
              mk'.pending_check]_vars
\* an order event has raised the signal while a tick is suspended in a
\* venue call it made after a first one
C25_Witness ==
    /\ mk.pending_check /\ tk.pc \in {"cancel", "place_buy", "place_sell"}
    /\ call["tick"].state = "sent" /\ uq = <<>>

\* C26: every intake event that changes the state store (a DEX price, a CEX
\* price, a closed candle's volume, a depth snapshot, an order event, a
\* position event) leaves the wake signal of the loop raised.
StoreChanged ==
    \/ st' # st \/ dexWin' # dexWin \/ cexWin' # cexWin
    \/ volWin' # volWin \/ imbWin' # imbWin
FeedHandled == tk' = tk /\ call' = call /\ uq' = uq /\ sl' = sl /\ venue' = venue
C26_IntakeWakes ==
    [][((FeedHandled \/ Delivered) /\ StoreChanged) => mk'.pending_check]_vars

\* the process leaves its main loop; the finally block is through
Exiting == mk.running /\ ~mk'.running
CleanedUp == tk.pc = "cleanup" /\ tk'.pc = "exit"
NoNewOrder == \A p \in Procs : call'[p].op = "new_order" => call'[p] = call[p]
BatchCancelOfTracked ==
    IF TrackedOrderIds(st) = {} THEN call'["tick"] = NoCall /\ tk'.pc = "exit"
    ELSE /\ call'["tick"] = Request("cancel_orders", [ids |-> TrackedOrderIds(st)])
         /\ tk'.pc = "cleanup"

\* C27 as stated: on exit the cleanup issues one batch cancel that names
\* every tracked order and submits no order; when it is through, whether
\* the cancel failed or not, no order is tracked and the process ends.
C27_CleanupClearsTracking ==
    [][/\ Exiting => BatchCancelOfTracked /\ NoNewOrder
       /\ CleanedUp => NoNewOrder /\ TrackedOrderIds(st') = {}
       /\ (tk.pc = "exit") => tk'.pc = "exit"]_vars

\* C27 (amended): on exit the cleanup issues one batch cancel that names
\* every tracked order (none when nothing is tracked) and submits no order;
\* it clears the tracking when the cancel call returns and leaves it as it
\* is when the call raises; in both cases the process ends.
C27_Cleanup ==
    [][/\ Exiting => BatchCancelOfTracked /\ NoNewOrder
       /\ CleanedUp =>
              /\ NoNewOrder
              /\ call["tick"].state # "raise" => TrackedOrderIds(st') = {}
              /\ call["tick"].state = "raise" => st' = st
       /\ (tk.pc = "exit") => tk'.pc = "exit"]_vars
\* the cleanup is through after a cancel that failed, with an order tracked
C27_Witness ==
    /\ tk.pc = "exit" /\ ~mk.running /\ call["tick"] = NoCall
    /\ TrackedOrderIds(st) # {} /\ TrackedOrderIds(st) \subseteq OpenIds

\* C28: when the user stream has been connected again after messages were
\* lost, a resync is under way: a query of the positions or of the open
\* orders has been sent to the venue.
Reconnected == uq # <<>> /\ uq' = <<>> /\ bud'.env = bud.env + 1
ResyncSent ==
    \E p \in Procs :
        /\ call'[p].op \in {"query_positions", "query_open_orders"}
        /\ call'[p].state = "sent" /\ call'[p] # call[p]
C28_ReconnectResyncs ==
    [][Reconnected => ResyncSent]_vars

\* C29: a partially_filled event for the tracked order of a side leaves it
\* tracked under its id with the remaining quantity the event reports, and
\* an order that has been filled in part leaves the tracking only when an
\* event reports it filled, cancelled or rejected, or when a cancel the
\* loop issued for it is answered or has taken it off the venue's book.
PartialFillOfTracked ==
    /\ uq # <<>> /\ Head(uq).kind = "order" /\ Head(uq).status = "partially_filled"
    /\ Head(uq).bad = "none" /\ Head(uq).leaves # NONE
    /\ st.ord[Head(uq).side].id = Head(uq).id
FilledInPart(side) ==
    /\ st.ord[side].id = AdoptedOrder(side).id
    /\ st.ord[side].qty < AdoptedOrder(side).qty
TerminalEventFor(id) ==
    /\ Delivered /\ Head(uq).kind = "order" /\ Head(uq).id = id
    /\ Head(uq).status \in {"filled", "cancelled", "rejected"}
CancelAnsweredFor(id) ==
    \E p \in Procs : CancelAsked(call[p], id) /\ call[p].state = "ok" /\ call'[p] # call[p]
C29_PartialFillKeepsOrder ==
    [][/\ (PartialFillOfTracked /\ Delivered) =>
              st'.ord[Head(uq).side] = [st.ord[Head(uq).side] EXCEPT !.qty = Head(uq).leaves]
       /\ \A side \in Sides :
              (FilledInPart(side) /\ st'.ord[side].id # st.ord[side].id) =>
                  \/ TerminalEventFor(st.ord[side].id)
                  \/ CancelAnsweredFor(st.ord[side].id)
                  \/ st.ord[side].id \notin OpenIds]_vars

\* C30: an order or position event whose callback fails on a field that is
\* not a number leaves position, entry price, tracked orders and last-fill
\* time as they were.
ProcessingFails ==
    /\ uq # <<>>
    /\ \/ /\ Head(uq).kind = "order" /\ Head(uq).bad \in {"pnl", "fee"}
          /\ Head(uq).status \in {"filled", "partially_filled"}
       \/ /\ Head(uq).kind = "position"
          /\ Head(uq).bad \in {"qty", "entry_price", "mark_price"}
C30_MalformedIgnored ==
    [][(ProcessingFails /\ Delivered) => st' = st]_vars

\* C31: after an append at time now with retention W every sample of the
\* window is younger than W and the last one is the sample of now; a prune
\* of that window keeps the new sample when its cutoff is before now and
\* drops it when its cutoff is now or later.
Retention ==
    <<[old |-> dexWin, new |-> dexWin', sec |-> PRICE_WINDOW],
      [old |-> cexWin, new |-> cexWin', sec |-> PRICE_WINDOW],
      [old |-> volWin, new |-> volWin', sec |-> volume_window_sec],
      [old |-> imbWin, new |-> imbWin', sec |-> imbalance_window_sec]>>
Cutoffs == (StartTime - 1)..(StartTime + MaxTime + 1)
HasSampleAt(w, t) == \E i \in 1..Len(w) : w[i].t = t
C31_WindowRetention ==
    [][\A k \in 1..Len(Retention) :
          LET r == Retention[k]
          IN  r.new # r.old =>
                  /\ r.new # <<>> /\ r.new[Len(r.new)].t = now
                  /\ \A i \in 1..Len(r.new) : r.new[i].t > now - r.sec
                  /\ \A c \in Cutoffs : HasSampleAt(Prune(r.new, c), now) <=> c < now]_vars
\* three volume samples have arrived, and the last append pruned the others
C31_Witness ==
    /\ bud.env = 3 /\ bud.kind = "feed"
    /\ dexWin = <<>> /\ cexWin = <<>> /\ imbWin = <<>>
    /\ Len(volWin) = 1 /\ volWin[1].t = StartTime + MaxTime

\* C32: whenever no venue call of the bot is in flight, every order that is
\* open at the venue is the tracked order of its side.
NoCallInFlight == \A p \in Procs : call[p] = NoCall
C32_OpenOrdersTracked ==
    NoCallInFlight => \A o \in venue.orders : st.ord[o.side].id = o.id

\* C33: while Recovery holds (the stop-loss is active before and after the
\* step) no limit order is sent to the venue and no order becomes tracked.
LimitOrderSent ==
    \E p \in Procs :
        /\ call'[p] # call[p] /\ call'[p].state = "sent"
        /\ call'[p].op = "new_order" /\ call'[p].otype = "limit"
BecomesTracked ==
    \E side \in Sides : st'.ord[side] # NoOrder /\ st'.ord[side] # st.ord[side]
C33_RecoveryQuiet ==
    [][(mk.stop_loss_active /\ mk'.stop_loss_active) =>
           ~LimitOrderSent /\ ~BecomesTracked]_vars

\* C34: on a constant input the loop cancels nothing it has placed: as long
\* as the environment has not acted (no feed message, fill, mark move or
\* venue error since the start) and the samples of the start are still fresh,
\* the tick sends no cancel request.
ConstantInput ==
    /\ bud.env = 0 /\ bud'.env = 0
    /\ now - StartTime <= binance_staleness_sec
    /\ now - StartTime < imbalance_window_sec
TickCancelSent ==
    /\ call'["tick"] # call["tick"] /\ call'["tick"].state = "sent"
    /\ call'["tick"].op \in {"cancel_order", "cancel_orders"}
C34_NoPlaceCancelCycle ==
    [][ConstantInput => ~TickCancelSent]_vars

\* C35: the position, at the venue and as the bot holds it, never exceeds
\* max_position in size.
C35_PositionBounded ==
    /\ venue.pos <= max_position_btc /\ -venue.pos <= max_position_btc
    /\ st.pos <= max_position_btc /\ -st.pos <= max_position_btc

\* C36: an order never becomes tracked after the venue has reported it
\* terminal: when a side's tracking takes a new id, that order is open at
\* the venue or its terminal event is still waiting in the user stream.
TerminalEventWaiting(id) ==
    \E i \in 1..Len(uq) :
        /\ uq[i].kind = "order" /\ uq[i].id = id
        /\ uq[i].status \in {"filled", "cancelled", "rejected"}
C36_NoTrackingAfterTerminal ==
    [][\A side \in Sides :
          (st'.ord[side] # NoOrder /\ st'.ord[side].id # st.ord[side].id) =>
              \/ st'.ord[side].id \in OpenIds
              \/ TerminalEventWaiting(st'.ord[side].id)]_vars

\* C37: a tick that starts while a risk guard or Recovery holds and returns
\* with the guard or Recovery still holding and an order still tracked has
\* sent a cancel request.
TickReturns == tk.pc # "idle" /\ tk'.pc = "idle"
TickUnderGuard ==
    \/ tk.pc = "recovery_sleep" /\ mk.stop_loss_active /\ mk'.stop_loss_active
    \/ tk.pc = "sl" /\ mk.risk_guard_active /\ mk'.risk_guard_active
C37_CancelRetried ==
    [][(TickReturns /\ TickUnderGuard /\ TrackedOrderIds(st') # {}) => obs'.cancels > 0]_vars

\* C38: a filled, cancelled or rejected event whose client order id is not
\* the id tracked on its side leaves the tracked orders as they were.
LateTerminalEvent ==
    /\ uq # <<>> /\ Head(uq).kind = "order" /\ Head(uq).side \in Sides
    /\ Head(uq).status \in {"filled", "cancelled", "rejected"}
    /\ st.ord[Head(uq).side] # NoOrder
    /\ st.ord[Head(uq).side].id # Head(uq).id
C38_OtherIdKeepsOrder ==
    [][(LateTerminalEvent /\ Delivered) => st'.ord = st.ord]_vars
\* the cancelled event of an order waits while its replacement is tracked
C38_Witness ==
    /\ LateTerminalEvent /\ Head(uq).status = "cancelled"
    /\ st.ord[Head(uq).side].id > Head(uq).id
    /\ st.ord[Head(uq).side].id \in OpenIds

\* C39: the loop ends only after stop() has been called, and once stop() has
\* been called no further tick starts.
TickStarts ==
    /\ tk.pc \in {"idle", "woken"}
    /\ tk'.pc \notin {"idle", "woken", "stopped"}
C39_LoopUntilStop ==
    [][/\ tk'.pc = "stopped" => ~mk.running
       /\ ~mk.running => ~TickStarts]_vars

\* pending_close goes back to FALSE only in a step that enters Recovery; this
\* holds of CloseSpec, so a run in which no stop-loss is executed keeps the
\* flag however long it lasts
PendingCloseResetOnlyByStopLoss ==
    [][(mk.pending_close /\ ~mk'.pending_close) => mk'.stop_loss_active]_vars

\* C40: whenever pending_close is set, it is cleared later.
C40_PendingCloseCleared ==
    mk.pending_close ~> ~mk.pending_close

====
